---- MODULE Spec2Model ----
(***************************************************************************)
(* A model of coa.geo: GeoManager (name standardisation), GeoRegion        *)
(* (region catalogue) and GeoInfo.add_field (field augmentation of a       *)
(* pandas table with lazily cached reference tables).                      *)
(*                                                                         *)
(* Python strings are TLA+ strings.  A pandas table is a record            *)
(* [cols, rows]: the column names in order and the rows in order, each row *)
(* a sequence of cells aligned with cols.  A cell is a record [k, v]: a    *)
(* scalar (k = "str"), a Python list (k = "list") or NaN (k = "nan").      *)
(***************************************************************************)
EXTENDS Integers, Sequences, FiniteSets, TLC

\* ------------------------------------------------------------------------
\* Bounds of the model
\* ------------------------------------------------------------------------
MaxRows == 2        \* rows of a caller's input table
MaxFields == 2      \* length of a requested field list
MaxSrcRows == 2     \* rows of an external reference source
MaxFetch == 2       \* fetches of one reference table followed in a run
MaxNames == 2       \* length of a list handed to to_standard

\* ------------------------------------------------------------------------
\* Generic helpers
\* ------------------------------------------------------------------------
Range(s) == {s[k] : k \in 1..Len(s)}

SeqsUpTo(S, n) == UNION {[1..k -> S] : k \in 0..n}

NonEmptySeqsUpTo(S, n) == UNION {[1..k -> S] : k \in 1..n}

RECURSIVE IndexOf(_, _, _)
\* position of the first element of s equal to x at or after k, 0 if none
IndexOf(s, x, k) ==
    IF k > Len(s) THEN 0
    ELSE IF s[k] = x THEN k
    ELSE IndexOf(s, x, k + 1)

\* ------------------------------------------------------------------------
\* Strings: str.title(), the ordering used by sorted() and groupby
\* ------------------------------------------------------------------------
\* a Python int handed over where a str is expected, written as a string
\* no str of the model equals
Ints == {"<int 250>"}

IsInt(v) == v \in Ints

\* str(c) for an int c
str(c) == IF c = "<int 250>" THEN "250" ELSE c

\* str.title() left out: the names are used as they are written
title_none(s) == s

\* str.title() on the strings the model feeds to to_standard
title(s) ==
    CASE s = "france" -> "France"
      [] s = "FRANCE" -> "France"
      [] s = "germany" -> "Germany"
      [] s = "japan" -> "Japan"
      [] s = "g7" -> "G7"
      [] s = "FRA" -> "Fra"
      [] s = "DEU" -> "Deu"
      [] s = "JPN" -> "Jpn"
      [] s = "JAP" -> "Jap"
      [] s = "european union" -> "European Union"
      [] s = "Latin America and the Caribbean" -> "Latin America And The Caribbean"
      [] s = "OECD" -> "Oecd"
      [] s = "united" -> "United"
      [] s = "UNITED" -> "United"
      [] s = "ATLANTIS" -> "Atlantis"
      [] s = "atlantis" -> "Atlantis"
      [] s = "EASTERN ASIA" -> "Eastern Asia"
      [] s = "eastern asia" -> "Eastern Asia"
      [] s = "CAN" -> "Can"
      [] s = "USA" -> "Usa"
      [] s = "ITA" -> "Ita"
      [] s = "GBR" -> "Gbr"
      [] s = "DIAMOND PRINCESS" -> "Diamond Princess"
      [] s = "diamond princess" -> "Diamond Princess"
      [] s = "iran" -> "Iran"
      [] s = "IRAN" -> "Iran"
      [] s = "IRN" -> "Irn"
      [] OTHER -> s

\* Python's ordering of the strings that get sorted (iso3 codes, "" first)
StrOrder ==
    << "", "AFG", "AGO", "ARE", "ARG", "ATG", "AUS", "AUT", "AZE", "BDI",
       "BEL", "BEN", "BFA", "BGD", "BGR", "BHR", "BHS", "BLZ", "BOL", "BRA",
       "BRB", "BRN", "BTN", "BWA", "CAF", "CAN", "CHE", "CHL", "CHN", "CIV",
       "CMR", "COD", "COG", "COL", "COM", "CPV", "CRI", "CUB", "CYP", "CZE",
       "DEU", "DJI", "DMA", "DNK", "DOM", "DZA", "ECU", "EGY", "ERI", "ESP",
       "EST", "ETH", "FIN", "FJI", "FRA", "FSM", "G7", "GAB", "GBR", "GHA", "GIN",
       "GMB", "GNB", "GNQ", "GRC", "GRD", "GTM", "GUY", "HND", "HRV", "HTI",
       "HUN", "IDN", "IND", "IRL", "IRN", "IRQ", "ISL", "ISR", "ITA", "JAM",
       "JAP", "JOR", "JPN", "KEN", "KHM", "KIR", "KNA", "KOR", "KWT", "LAO",
       "LBN", "LBR", "LBY", "LCA", "LKA", "LSO", "LTU", "LUX", "LVA", "MAR",
       "MDG", "MDV", "MEX", "MHL", "MLI", "MLT", "MMR", "MNG", "MOZ", "MRT",
       "MUS", "MWI", "MYS", "NAM", "NER", "NGA", "NIC", "NLD", "NOR", "NPL",
       "NRU", "NZL", "OMN", "PAK", "PAN", "PER", "PHL", "PNG", "POL", "PRK",
       "PRT", "PRY", "PSE", "QAT", "ROU", "RUS", "RWA", "SAU", "SDN", "SEN",
       "SGP", "SLB", "SLE", "SLV", "SOM", "SSD", "STP", "SUR", "SVK", "SVN",
       "SWE", "SWZ", "SYC", "SYR", "TCD", "TGO", "THA", "TJK", "TKM", "TLS",
       "TON", "TTO", "TUN", "TUR", "TZA", "UGA", "URY", "USA", "VCT", "VEN",
       "VNM", "VUT", "WSM", "YEM", "ZAF", "ZMB", "ZWE" >>

\* the position of a string in that ordering
Rank(s) == CHOOSE k \in 1..Len(StrOrder) : StrOrder[k] = s

\* sorted(list): the stable ascending sort
sorted(s) ==
    LET before(j) == {k \in 1..Len(s) :
                        \/ Rank(s[k]) < Rank(s[j])
                        \/ Rank(s[k]) = Rank(s[j]) /\ k < j}
    IN [i \in 1..Len(s) |-> s[CHOOSE j \in 1..Len(s) : Cardinality(before(j)) = i - 1]]

\* ------------------------------------------------------------------------
\* The authoritative country catalogue (pycountry), as far as the model's
\* strings reach.  keys are the lower-cased values pycountry indexes.
\* ------------------------------------------------------------------------
Countries ==
    << [alpha_2 |-> "FR", alpha_3 |-> "FRA", name |-> "France", numeric |-> "250",
        keys |-> {"fr", "fra", "france", "250", "french republic"}],
       [alpha_2 |-> "DE", alpha_3 |-> "DEU", name |-> "Germany", numeric |-> "276",
        keys |-> {"de", "deu", "germany", "276", "federal republic of germany"}],
       [alpha_2 |-> "JP", alpha_3 |-> "JPN", name |-> "Japan", numeric |-> "392",
        keys |-> {"jp", "jpn", "japan", "392"}],
       [alpha_2 |-> "CA", alpha_3 |-> "CAN", name |-> "Canada", numeric |-> "124",
        keys |-> {"ca", "can", "canada", "124"}],
       [alpha_2 |-> "US", alpha_3 |-> "USA", name |-> "United States", numeric |-> "840",
        keys |-> {"us", "usa", "united states", "840", "united states of america"}],
       [alpha_2 |-> "IT", alpha_3 |-> "ITA", name |-> "Italy", numeric |-> "380",
        keys |-> {"it", "ita", "italy", "380", "italian republic"}],
       [alpha_2 |-> "GB", alpha_3 |-> "GBR", name |-> "United Kingdom", numeric |-> "826",
        keys |-> {"gb", "gbr", "united kingdom", "826",
                  "united kingdom of great britain and northern ireland"}],
       [alpha_2 |-> "IR", alpha_3 |-> "IRN", name |-> "Iran, Islamic Republic of",
        numeric |-> "364",
        keys |-> {"ir", "irn", "iran, islamic republic of", "364",
                  "islamic republic of iran"}] >>

\* str.lower() as pycountry applies it to the looked-up value
lower(s) ==
    CASE s = "France" -> "france"
      [] s = "Germany" -> "germany"
      [] s = "Japan" -> "japan"
      [] s = "Atlantis" -> "atlantis"
      [] s = "Fra" -> "fra"
      [] s = "FRA" -> "fra"
      [] s = "Deu" -> "deu"
      [] s = "DEU" -> "deu"
      [] s = "Jpn" -> "jpn"
      [] s = "JPN" -> "jpn"
      [] s = "Jap" -> "jap"
      [] s = "JAP" -> "jap"
      [] s = "CAN" -> "can"
      [] s = "USA" -> "usa"
      [] s = "ITA" -> "ita"
      [] s = "GBR" -> "gbr"
      [] s = "RUS" -> "rus"
      [] s = "G7" -> "g7"
      [] s = "United" -> "united"
      [] s = "Can" -> "can"
      [] s = "Usa" -> "usa"
      [] s = "Ita" -> "ita"
      [] s = "Gbr" -> "gbr"
      [] s = "Eastern Asia" -> "eastern asia"
      [] s = "FRANCE" -> "france"
      [] s = "Diamond Princess" -> "diamond princess"
      [] s = "Iran" -> "iran"
      [] s = "IRN" -> "irn"
      [] s = "Irn" -> "irn"
      [] OTHER -> s

RECURSIVE lookup_from(_, _)
lookup_from(v, k) ==
    IF k > Len(Countries) THEN 0
    ELSE IF v \in Countries[k].keys THEN k
    ELSE lookup_from(v, k + 1)

\* a lookup that matches the names of the countries only, not their codes
lookup_by_name(c) ==
    IF \E i \in 1..Len(Countries) : lower(Countries[i].name) = lower(c)
    THEN CHOOSE i \in 1..Len(Countries) : lower(Countries[i].name) = lower(c)
    ELSE 0

\* pc.countries.lookup(c): the index of the record in Countries, 0 for a
\* LookupError
lookup(c) == lookup_from(lower(c), 1)

\* pc.countries.search_fuzzy(c): the ranked candidates (indexes in
\* Countries) whose name contains the lower-cased query; <<>> is a
\* LookupError.  Only reached for strings lookup() does not find.
search_fuzzy(c) ==
    CASE lower(c) = "jap" -> <<3>>
      [] lower(c) = "united" -> <<5, 7>>
      [] lower(c) = "iran" -> <<8>>
      [] OTHER -> <<>>

\* ------------------------------------------------------------------------
\* GeoManager
\* ------------------------------------------------------------------------
list_standard == <<"iso2", "iso3", "name", "num">>

list_db == <<"None", "jhu", "worldometers", "owid">>

list_output == <<"list", "dict", "pandas">>

\* the result of a call: kind is "return" or the class of the exception raised
Raise(e) == [kind |-> e]

\* set_standard when the value is stored before it is validated
set_standard_early(cur, s) ==
    IF IsInt(s) THEN [standard |-> s, res |-> Raise("CoaTypeError")]
    ELSE IF s \notin Range(list_standard)
    THEN [standard |-> s, res |-> Raise("CoaKeyError")]
    ELSE [standard |-> s, res |-> [kind |-> "return", val |-> s]]

\* GeoManager.set_standard(standard): the new value of _standard and the result
set_standard(cur, s) ==
    IF IsInt(s) THEN [standard |-> cur, res |-> Raise("CoaTypeError")]
    ELSE IF s \notin Range(list_standard)
    THEN [standard |-> cur, res |-> Raise("CoaKeyError")]
    ELSE [standard |-> s, res |-> [kind |-> "return", val |-> s]]

\* the per-database override tables
translation_dict(db, k) ==
    IF db = "jhu" THEN
        CASE k = "Congo (Brazzaville)" -> "Republic of the Congo"
          [] k = "Congo (Kinshasa)" -> "COD"
          [] k = "Korea, South" -> "KOR"
          [] k = "Taiwan*" -> "Taiwan"
          [] k = "Laos" -> "LAO"
          [] k = "West Bank And Gaza" -> "PSE"
          [] k = "Burma" -> "Myanmar"
          [] k = "Iran" -> "IRN"
          [] k = "Diamond Princess" -> ""
          [] k = "Ms Zaandam" -> ""
          [] OTHER -> k
    ELSE IF db = "worldometers" THEN
        CASE k = "Dr Congo" -> "COD"
          [] k = "Congo" -> "COG"
          [] k = "Iran" -> "IRN"
          [] k = "South Korea" -> "KOR"
          [] k = "North Korea" -> "PRK"
          [] k = "Czech Republic (Czechia)" -> "CZE"
          [] k = "Laos" -> "LAO"
          [] k = "Sao Tome & Principe" -> "STP"
          [] k = "Channel Islands" -> "JEY"
          [] k = "St. Vincent & Grenadines" -> "VCT"
          [] k = "U.S. Virgin Islands" -> "VIR"
          [] k = "Saint Kitts & Nevis" -> "KNA"
          [] k = "Faeroe Islands" -> "FRO"
          [] k = "Caribbean Netherlands" -> "BES"
          [] k = "Wallis & Futuna" -> "WLF"
          [] k = "Saint Pierre & Miquelon" -> "SPM"
          [] k = "Sint Maarten" -> "SXM"
          [] OTHER -> k
    ELSE IF db = "owid" THEN
        CASE k = "Bonaire Sint Eustatius And Saba" -> "BES"
          [] k = "Cape Verde" -> "CPV"
          [] k = "Democratic Republic Of Congo" -> "COD"
          [] k = "Faeroe Islands" -> "FRO"
          [] k = "Laos" -> "LAO"
          [] k = "South Korea" -> "KOR"
          [] k = "Swaziland" -> "SWZ"
          [] k = "United States Virgin Islands" -> "VIR"
          [] k = "Iran" -> "IRN"
          [] OTHER -> k
    ELSE k

\* the translation left out: the names go to the catalogue as they are
first_db_translation_none(w, db) == w

\* GeoManager.first_db_translation(w, db)

first_db_translation(w, db) == [k \in 1..Len(w) |-> translation_dict(db, w[k])]

\* ------------------------------------------------------------------------
\* Tables (pandas DataFrame) and cells
\* ------------------------------------------------------------------------
S(x) == [k |-> "str", v |-> <<x>>]

L(xs) == [k |-> "list", v |-> xs]

NaN == [k |-> "nan", v |-> <<>>]

\* the Python value of a scalar cell, as an element of a list
Item(c) == IF c.k = "nan" THEN "nan" ELSE c.v[1]

\* a value of a reference source: what it measures, of which country
Datum(what, country) == [k |-> "str", v |-> <<what, country>>]

EmptyDF == [cols |-> <<>>, rows |-> <<>>]

\* DataFrame.empty: some axis has length 0
empty(t) == Len(t.cols) = 0 \/ Len(t.rows) = 0

HasCol(t, c) == c \in Range(t.cols)

\* t[c].tolist()
Column(t, c) == [r \in 1..Len(t.rows) |-> t.rows[r][IndexOf(t.cols, c, 1)]]

RECURSIVE KeepCols(_, _, _)
\* the cells of row at the positions of cols whose name is not in names
KeepCols(cols, row, names) ==
    IF cols = <<>> THEN <<>>
    ELSE (IF Head(cols) \in names THEN <<>> ELSE <<Head(row)>>)
         \o KeepCols(Tail(cols), Tail(row), names)

\* t.drop(names, axis=1), for names that are columns of t
drop(t, names) ==
    [cols |-> KeepCols(t.cols, t.cols, names),
     rows |-> [r \in 1..Len(t.rows) |-> KeepCols(t.cols, t.rows[r], names)]]

\* t[[c1, c2, ...]], for names that are columns of t
Select(t, names) ==
    [cols |-> names,
     rows |-> [r \in 1..Len(t.rows) |->
                 [k \in 1..Len(names) |-> t.rows[r][IndexOf(t.cols, names[k], 1)]]]]

\* t[c] = cells, for Len(cells) = Len(t.rows): replaces the column in place
\* or appends it as the last one
SetItem(t, c, cells) ==
    IF HasCol(t, c)
    THEN [cols |-> t.cols,
          rows |-> [r \in 1..Len(t.rows) |->
                      [k \in 1..Len(t.cols) |->
                         IF k = IndexOf(t.cols, c, 1) THEN cells[r] ELSE t.rows[r][k]]]]
    ELSE [cols |-> Append(t.cols, c),
          rows |-> [r \in 1..Len(t.rows) |-> Append(t.rows[r], cells[r])]]

RECURSIVE Dedup(_, _)
Dedup(rows, seen) ==
    IF rows = <<>> THEN <<>>
    ELSE IF Head(rows) \in seen THEN Dedup(Tail(rows), seen)
    ELSE <<Head(rows)>> \o Dedup(Tail(rows), seen \cup {Head(rows)})

\* t.drop_duplicates(): the first occurrence of every row is kept
drop_duplicates(t) == [cols |-> t.cols, rows |-> Dedup(t.rows, {})]

RECURSIVE Matches(_, _, _, _)
\* the rows of the right table whose key equals key, in the right table's
\* order, each appended to the left row; the left row padded with NaN when
\* there is none
Matches(lrow, key, r, k) ==
    IF k > Len(r.rows) THEN <<>>
    ELSE (IF r.rows[k][r.kpos] = key THEN <<lrow \o r.rows[k]>> ELSE <<>>)
         \o Matches(lrow, key, r, k + 1)

RECURSIVE MergeRows(_, _, _, _)
MergeRows(l, lpos, r, i) ==
    IF i > Len(l.rows) THEN <<>>
    ELSE LET m == Matches(l.rows[i], l.rows[i][lpos], r, 1)
             pad == l.rows[i] \o [k \in 1..Len(r.cols) |-> NaN]
         IN (IF m = <<>> THEN <<pad>> ELSE m) \o MergeRows(l, lpos, r, i + 1)

\* the name of a column in a merge result: a name both tables have gets
\* the suffix of its side
Suffixed(c, other, suffix) == IF c \in Range(other) THEN c \o suffix ELSE c

RECURSIVE InnerRows(_, _, _, _)
InnerRows(l, lpos, r, i) ==
    IF i > Len(l.rows) THEN <<>>
    ELSE Matches(l.rows[i], l.rows[i][lpos], r, 1) \o InnerRows(l, lpos, r, i + 1)

\* l.merge(r, how='inner', ...): the left rows without a match are left out
merge_inner(l, r, lkey, rkey, sfx) ==
    [cols |-> [k \in 1..Len(l.cols) |-> Suffixed(l.cols[k], r.cols, sfx[1])]
              \o [k \in 1..Len(r.cols) |-> Suffixed(r.cols[k], l.cols, sfx[2])],
     rows |-> InnerRows(l, IndexOf(l.cols, lkey, 1),
                        [cols |-> r.cols, rows |-> r.rows,
                         kpos |-> IndexOf(r.cols, rkey, 1)], 1)]

\* l.merge(r, how='left', left_on=lkey, right_on=rkey, suffixes=sfx), for
\* lkey a column of l and rkey a column of r with a different name: every
\* left row in order, once per matching right row
merge(l, r, lkey, rkey, sfx) ==
    [cols |-> [k \in 1..Len(l.cols) |-> Suffixed(l.cols[k], r.cols, sfx[1])]
              \o [k \in 1..Len(r.cols) |-> Suffixed(r.cols[k], l.cols, sfx[2])],
     rows |-> MergeRows(l, IndexOf(l.cols, lkey, 1),
                        [cols |-> r.cols, rows |-> r.rows,
                         kpos |-> IndexOf(r.cols, rkey, 1)], 1)]

RECURSIVE GroupKeys(_, _)
\* the distinct keys of a column, in order of first appearance
GroupKeys(cells, seen) ==
    IF cells = <<>> THEN <<>>
    ELSE IF Head(cells) \in seen THEN GroupKeys(Tail(cells), seen)
    ELSE <<Item(Head(cells))>> \o GroupKeys(Tail(cells), seen \cup {Head(cells)})

RECURSIVE GroupValues(_, _, _, _, _)
GroupValues(t, kpos, vpos, key, r) ==
    IF r > Len(t.rows) THEN <<>>
    ELSE (IF Item(t.rows[r][kpos]) = key THEN <<Item(t.rows[r][vpos])>> ELSE <<>>)
         \o GroupValues(t, kpos, vpos, key, r + 1)

\* t.groupby(key)[val].apply(list).to_list(): one list per distinct key,
\* the groups in ascending key order
groupby_list(t, key, val) ==
    LET keys == sorted(GroupKeys(Column(t, key), {}))
    IN [g \in 1..Len(keys) |->
          L(GroupValues(t, IndexOf(t.cols, key, 1), IndexOf(t.cols, val, 1), keys[g], 1))]

\* ------------------------------------------------------------------------
\* GeoRegion
\* ------------------------------------------------------------------------
\* dict.update on a dict kept as the sequence of its <<key, value>> items
RECURSIVE DictSet(_, _, _)
DictSet(d, key, val) ==
    IF d = <<>> THEN << <<key, val>> >>
    ELSE IF Head(d)[1] = key THEN << <<key, val>> >> \o Tail(d)
    ELSE <<Head(d)>> \o DictSet(Tail(d), key, val)

RECURSIVE DictUpdate(_, _)
DictUpdate(d, items) ==
    IF items = <<>> THEN d
    ELSE DictUpdate(DictSet(d, Head(items)[1], Head(items)[2]), Tail(items))

\* the hardcoded regions added to _region_dict
StaticRegions ==
    << <<"UE", "European Union">>, <<"G7", "G7">>, <<"G8", "G8">>,
       <<"G20", "G20">>, <<"OECD", "Oecd">>, <<"G77", "G77">> >>

\* the dash the geoscheme page shows for a non standard iso3 code
NonStandardIso == "-"

RECURSIVE Explode(_)
\* one (iso3, capital, region) record per region code of every country of
\* the geoscheme page whose iso3 is a standard one
Explode(gs) ==
    IF gs = <<>> THEN <<>>
    ELSE (IF Head(gs).iso3 # NonStandardIso
          THEN [k \in 1..Len(Head(gs).m49) |->
                  <<S(Head(gs).iso3), S(Head(gs).capital), S(Head(gs).m49[k])>>]
          ELSE <<>>)
         \o Explode(Tail(gs))

\* GeoRegion.__init__: the class-level _region_dict updated with the M49
\* page (annotation in parentheses stripped) and the hardcoded regions,
\* and the flattened relation _p_gs of the new instance
GeoRegion_init(rd, m49, gs) ==
    LET p_m49 == [cols |-> <<"code", "region_name">>,
                  rows |-> [k \in 1..Len(m49) |-> <<S(m49[k].code), S(m49[k].name)>>]]
        items == [k \in 1..Len(m49) |-> <<m49[k].code, m49[k].name>>]
        flat == [cols |-> <<"iso3", "capital", "region">>, rows |-> Explode(gs)]
    IN [region_dict |-> DictUpdate(DictUpdate(rd, items), StaticRegions),
        p_gs |-> drop(merge(flat, p_m49, "region", "code", <<"_x", "_y">>), {"code"})]

\* GeoRegion.get_region_list()
get_region_list(rd) == [k \in 1..Len(rd) |-> rd[k][2]]

EuropeanUnion_clist ==
    << "AUT", "BEL", "BGR", "CYP", "CZE", "DEU", "DNK", "EST", "ESP", "FIN",
       "FRA", "GRC", "HRV", "HUN", "IRL", "ITA", "LTU", "LUX", "LVA", "MLT",
       "NLD", "POL", "PRT", "ROU", "SWE", "SVN", "SVK" >>

G7_clist ==
    << "DEU", "CAN", "USA", "FRA", "ITA", "JAP", "GBR" >>

G8_clist ==
    << "DEU", "CAN", "USA", "FRA", "ITA", "JAP", "GBR", "RUS" >>

G20_clist ==
    << "ZAF", "SAU", "ARG", "AUS", "BRA", "CAN", "CHN", "KOR", "USA", "IND",
       "IDN", "JAP", "MEX", "GBR", "RUS", "TUR", "AUT", "BEL", "BGR", "CYP",
       "CZE", "DEU", "DNK", "EST", "ESP", "FIN", "FRA", "GRC", "HRV", "HUN",
       "IRL", "ITA", "LTU", "LUX", "LVA", "MLT", "NLD", "POL", "PRT", "ROU",
       "SWE", "SVN", "SVK" >>

Oecd_clist ==
    << "DEU", "AUS", "AUT", "BEL", "CAN", "CHL", "COL", "KOR", "DNK", "ESP",
       "EST", "USA", "FIN", "FRA", "GRC", "HUN", "IRL", "ISL", "ISR", "ITA",
       "JAP", "LVA", "LTU", "LUX", "MEX", "NOR", "NZL", "NLD", "POL", "PRT",
       "SVK", "SVN", "SWE", "CHE", "GBR", "CZE", "TUR" >>

G77_clist ==
    << "AFG", "DZA", "AGO", "ATG", "ARG", "AZE", "BHS", "BHR", "BGD", "BRB",
       "BLZ", "BEN", "BTN", "BOL", "BWA", "BRA", "BRN", "BFA", "BDI", "CPV",
       "KHM", "CMR", "CAF", "TCD", "CHL", "CHN", "COL", "COM", "COG", "CRI",
       "CIV", "CUB", "PRK", "COD", "DJI", "DMA", "DOM", "ECU", "EGY", "SLV",
       "GNQ", "ERI", "SWZ", "ETH", "FJI", "GAB", "GMB", "GHA", "GRD", "GTM",
       "GIN", "GNB", "GUY", "HTI", "HND", "IND", "IDN", "IRN", "IRQ", "JAM",
       "JOR", "KEN", "KIR", "KWT", "LAO", "LBN", "LSO", "LBR", "LBY", "MDG",
       "MWI", "MYS", "MDV", "MLI", "MHL", "MRT", "MUS", "FSM", "MNG", "MAR",
       "MOZ", "MMR", "NAM", "NRU", "NPL", "NIC", "NER", "NGA", "OMN", "PAK",
       "PAN", "PNG", "PRY", "PER", "PHL", "QAT", "RWA", "KNA", "LCA", "VCT",
       "WSM", "STP", "SAU", "SEN", "SYC", "SLE", "SGP", "SLB", "SOM", "ZAF",
       "SSD", "LKA", "PSE", "SDN", "SUR", "SYR", "TJK", "THA", "TLS", "TGO",
       "TON", "TTO", "TUN", "TKM", "UGA", "ARE", "TZA", "URY", "VUT", "VEN",
       "VNM", "YEM", "ZMB", "ZWE" >>

RECURSIVE Iso3Where(_, _, _)
\* _p_gs[_p_gs['region_name'] == region]['iso3'].to_list()
Iso3Where(pgs, region, r) ==
    IF r > Len(pgs.rows) THEN <<>>
    ELSE (IF pgs.rows[r][IndexOf(pgs.cols, "region_name", 1)] = S(region)
          THEN <<Item(pgs.rows[r][IndexOf(pgs.cols, "iso3", 1)])>> ELSE <<>>)
         \o Iso3Where(pgs, region, r + 1)

\* get_countries_from_region when the scraped relation is asked first and
\* the hardcoded lists only serve the regions it does not know
get_countries_dynamic_first(rd, pgs, region0) ==
    LET region == title(region0)
    IN IF region \notin Range(get_region_list(rd)) THEN Raise("CoaKeyError")
       ELSE IF Iso3Where(pgs, region, 1) # <<>>
       THEN [kind |-> "return", val |-> sorted(Iso3Where(pgs, region, 1))]
       ELSE [kind |-> "return",
             val |-> sorted(
                CASE region = "European Union" -> EuropeanUnion_clist
                  [] region = "G7" -> G7_clist
                  [] region = "G8" -> G8_clist
                  [] region = "G20" -> G20_clist
                  [] region = "Oecd" -> Oecd_clist
                  [] region = "G77" -> G77_clist
                  [] OTHER -> <<>>)]

\* GeoRegion.get_countries_from_region(region), for a str argument
get_countries_from_region(rd, pgs, region0) ==
    LET region == title(region0)
    IN IF region \notin Range(get_region_list(rd)) THEN Raise("CoaKeyError")
       ELSE [kind |-> "return",
             val |-> sorted(
                CASE region = "European Union" -> EuropeanUnion_clist
                  [] region = "G7" -> G7_clist
                  [] region = "G8" -> G8_clist
                  [] region = "G20" -> G20_clist
                  [] region = "Oecd" -> Oecd_clist
                  [] region = "G77" -> G77_clist
                  [] OTHER -> Iso3Where(pgs, region, 1))]

\* ------------------------------------------------------------------------
\* GeoManager.to_standard
\* ------------------------------------------------------------------------
\* the projection of a catalogue record on the current standard
Project(std, rec) ==
    CASE std = "iso2" -> rec.alpha_2
      [] std = "iso3" -> rec.alpha_3
      [] std = "name" -> rec.name
      [] std = "num" -> rec.numeric

RECURSIVE StdLoopBack(_, _, _, _, _, _, _)
\* the loop when the members of a region are put behind the remaining
\* queue instead of in front of it
StdLoopBack(std, pc, rd, pgs, interp, w, acc) ==
    IF w = <<>> THEN [kind |-> "return"] @@ acc
    ELSE
      LET c == str(Head(w))
          rest == Tail(w)
      IN IF interp /\ c \in Range(get_region_list(rd))
         THEN LET m == get_countries_from_region(rd, pgs, c)
              IN IF m.kind # "return" THEN [kind |-> m.kind] @@ acc
                 ELSE StdLoopBack(std, pc, rd, pgs, interp, rest \o m.val, acc)
         ELSE IF c = ""
         THEN StdLoopBack(std, pc, rd, pgs, interp, rest,
                      [acc EXCEPT !.n = Append(@, ""), !.how = Append(@, "empty")])
         ELSE
           LET n0 == lookup(c)
               nf == search_fuzzy(c)
               asked == Append(acc.asked, c)
           IN IF pc = "lookup"
              THEN [kind |-> "UnboundLocalError"] @@ [acc EXCEPT !.asked = asked]
              ELSE IF n0 = 0 /\ pc = "search_fuzzy"
              THEN [kind |-> "TypeError"] @@ [acc EXCEPT !.asked = asked]
              ELSE IF n0 = 0 /\ nf = <<>>
              THEN [kind |-> "CoaLookupError"] @@ [acc EXCEPT !.asked = asked]
              ELSE IF std \notin Range(list_standard)
              THEN [kind |-> "CoaKeyError"] @@ [acc EXCEPT !.asked = asked]
              ELSE StdLoopBack(std, pc, rd, pgs, interp, rest,
                     [n |-> Append(acc.n, Project(std, Countries[IF n0 # 0 THEN n0 ELSE nf[1]])),
                      how |-> Append(acc.how, IF n0 # 0 THEN "exact" ELSE "fuzzy"),
                      asked |-> asked,
                      warned |-> acc.warned + (IF n0 = 0 /\ Len(nf) > 1 THEN 1 ELSE 0)])

RECURSIVE StdLoopStrict(_, _, _, _, _, _, _)
\* the loop when a name with several fuzzy candidates is refused like a
\* name with none
StdLoopStrict(std, pc, rd, pgs, interp, w, acc) ==
    IF w = <<>> THEN [kind |-> "return"] @@ acc
    ELSE
      LET c == str(Head(w))
          rest == Tail(w)
      IN IF interp /\ c \in Range(get_region_list(rd))
         THEN LET m == get_countries_from_region(rd, pgs, c)
              IN IF m.kind # "return" THEN [kind |-> m.kind] @@ acc
                 ELSE StdLoopStrict(std, pc, rd, pgs, interp, m.val \o rest, acc)
         ELSE IF c = ""
         THEN StdLoopStrict(std, pc, rd, pgs, interp, rest,
                      [acc EXCEPT !.n = Append(@, ""), !.how = Append(@, "empty")])
         ELSE
           LET n0 == lookup(c)
               nf == search_fuzzy(c)
               asked == Append(acc.asked, c)
           IN IF pc = "lookup"
              THEN [kind |-> "UnboundLocalError"] @@ [acc EXCEPT !.asked = asked]
              ELSE IF n0 = 0 /\ pc = "search_fuzzy"
              THEN [kind |-> "TypeError"] @@ [acc EXCEPT !.asked = asked]
              ELSE IF n0 = 0 /\ Len(nf) # 1
              THEN [kind |-> "CoaLookupError"] @@ [acc EXCEPT !.asked = asked]
              ELSE IF std \notin Range(list_standard)
              THEN [kind |-> "CoaKeyError"] @@ [acc EXCEPT !.asked = asked]
              ELSE StdLoopStrict(std, pc, rd, pgs, interp, rest,
                     [n |-> Append(acc.n, Project(std, Countries[IF n0 # 0 THEN n0 ELSE nf[1]])),
                      how |-> Append(acc.how, IF n0 # 0 THEN "exact" ELSE "fuzzy"),
                      asked |-> asked,
                      warned |-> acc.warned])

RECURSIVE StdLoop(_, _, _, _, _, _, _)
\* the while loop of to_standard over the work queue w.  acc holds n, the
\* values appended so far, how each was obtained (how), the strings looked
\* up (asked) and the number of warnings emitted (warned).  pc tells which
\* function of pycountry, if any, raises an exception that is no LookupError
StdLoop(std, pc, rd, pgs, interp, w, acc) ==
    IF w = <<>> THEN [kind |-> "return"] @@ acc
    ELSE
      LET c == str(Head(w))
          rest == Tail(w)
      IN IF interp /\ c \in Range(get_region_list(rd))
         THEN LET m == get_countries_from_region(rd, pgs, c)
              IN IF m.kind # "return" THEN [kind |-> m.kind] @@ acc
                 ELSE StdLoop(std, pc, rd, pgs, interp, m.val \o rest, acc)
         ELSE IF c = ""
         THEN StdLoop(std, pc, rd, pgs, interp, rest,
                      [acc EXCEPT !.n = Append(@, ""), !.how = Append(@, "empty")])
         ELSE
           LET n0 == lookup(c)
               nf == search_fuzzy(c)
               asked == Append(acc.asked, c)
           IN IF pc = "lookup"
              THEN [kind |-> "UnboundLocalError"] @@ [acc EXCEPT !.asked = asked]
              ELSE IF n0 = 0 /\ pc = "search_fuzzy"
              THEN [kind |-> "TypeError"] @@ [acc EXCEPT !.asked = asked]
              ELSE IF n0 = 0 /\ nf = <<>>
              THEN [kind |-> "CoaLookupError"] @@ [acc EXCEPT !.asked = asked]
              ELSE IF std \notin Range(list_standard)
              THEN [kind |-> "CoaKeyError"] @@ [acc EXCEPT !.asked = asked]
              ELSE StdLoop(std, pc, rd, pgs, interp, rest,
                     [n |-> Append(acc.n, Project(std, Countries[IF n0 # 0 THEN n0 ELSE nf[1]])),
                      how |-> Append(acc.how, IF n0 # 0 THEN "exact" ELSE "fuzzy"),
                      asked |-> asked,
                      warned |-> acc.warned + (IF n0 = 0 /\ Len(nf) > 1 THEN 1 ELSE 0)])

\* the list written back into the caller's list object, element by element
TitleAllInPlace(w) ==
    [new |-> [k \in 1..Len(w) |-> title(w[k])],
     old |-> [k \in 1..Len(w) |-> title(w[k])]]

\* w=[v.title() for v in w]: the name w is bound to a new list (new), the
\* list object the caller passed (old) is left as it is; the loop pops
\* from the new list
TitleAll(w) ==
    [new |-> [k \in 1..Len(w) |-> title(w[k])],
     old |-> w]

\* dict(zip(w0, n)): the (key, value) pairs in the order the keys were
\* first inserted, each key with the value inserted last
DictOf(w0, n) ==
    LET len == IF Len(w0) < Len(n) THEN Len(w0) ELSE Len(n)
        firsts == {k \in 1..len : \A j \in 1..(k - 1) : w0[j] # w0[k]}
        last(k) == CHOOSE j \in 1..len :
                       w0[j] = w0[k] /\ \A i \in (j + 1)..len : w0[i] # w0[k]
        nth(i) == CHOOSE k \in firsts : Cardinality({j \in firsts : j < k}) = i - 1
    IN [i \in 1..Cardinality(firsts) |-> <<w0[nth(i)], n[last(nth(i))]>>]

\* the end of to_standard: the value returned for the requested output.
\* 'list' is n, 'dict' the pairs of dict(zip(w0, n)), 'pandas' the rows
\* (inputname, value) of the DataFrame; pandas refuses columns of
\* different lengths with a ValueError
ToOutput(r, w0, output) ==
    IF r.kind # "return" THEN r @@ [w0 |-> w0, val |-> <<>>]
    ELSE IF output = "list" THEN r @@ [w0 |-> w0, val |-> r.n]
    ELSE IF output = "dict" THEN r @@ [w0 |-> w0, val |-> DictOf(w0, r.n)]
    ELSE IF Len(w0) # Len(r.n) THEN [r EXCEPT !.kind = "ValueError"] @@ [w0 |-> w0, val |-> <<>>]
    ELSE r @@ [w0 |-> w0, val |-> [k \in 1..Len(w0) |-> <<w0[k], r.n[k]>>]]

\* to_standard when the empty names are looked up like the others
to_standard_no_empty(std, pc, rd, pgs, w, output, db, interpret_region) ==
    LET none == [n |-> <<>>, how |-> <<>>, asked |-> <<>>, warned |-> 0, w0 |-> <<>>,
                 val |-> <<>>, caller |-> w]
    IN IF output \notin Range(list_output) THEN [kind |-> "CoaKeyError"] @@ none
       ELSE IF db \notin Range(list_db)
       THEN [kind |-> IF IsInt(db) THEN "TypeError" ELSE "CoaDbError"] @@ none
       ELSE IF interpret_region \notin {"True", "False"}
       THEN [kind |-> "CoaTypeError"] @@ none
       ELSE IF interpret_region = "True" /\ output # "list"
       THEN [kind |-> "CoaKeyError"] @@ none
       ELSE IF \E k \in 1..Len(w) : IsInt(w[k])
       THEN [kind |-> "AttributeError"] @@ none
       ELSE
         LET w1 == TitleAll(w).new
             w2 == IF db # "None" THEN first_db_translation(w1, db) ELSE w1
         IN IF \E k \in 1..Len(w2) : w2[k] = ""
            THEN [kind |-> "CoaLookupError"] @@ [none EXCEPT !.asked = <<"">>]
            ELSE ToOutput(StdLoop(std, pc, rd, pgs, interpret_region = "True", w2,
                                  [n |-> <<>>, how |-> <<>>, asked |-> <<>>, warned |-> 0]),
                          w1, output)
                 @@ [caller |-> TitleAll(w).old]

\* GeoManager.to_standard(w, output=, db=, interpret_region=) for a list w
\* of str and int: [kind, n, how, asked, warned, w0]; kind is "return" or
\* the exception raised, n the standardized values in processing order and
\* w0 the title-cased inputs the dict and pandas outputs pair them with
to_standard(std, pc, rd, pgs, w, output, db, interpret_region) ==
    LET none == [n |-> <<>>, how |-> <<>>, asked |-> <<>>, warned |-> 0, w0 |-> <<>>,
                 val |-> <<>>, caller |-> w]
    IN IF output \notin Range(list_output) THEN [kind |-> "CoaKeyError"] @@ none
       ELSE IF db \notin Range(list_db)
       THEN [kind |-> IF IsInt(db) THEN "TypeError" ELSE "CoaDbError"] @@ none
       ELSE IF interpret_region \notin {"True", "False"}
       THEN [kind |-> "CoaTypeError"] @@ none
       ELSE IF interpret_region = "True" /\ output # "list"
       THEN [kind |-> "CoaKeyError"] @@ none
       ELSE IF \E k \in 1..Len(w) : IsInt(w[k])
       THEN [kind |-> "AttributeError"] @@ none
       ELSE
         LET w1 == TitleAll(w).new
             w2 == IF db # "None" THEN first_db_translation(w1, db) ELSE w1
         IN ToOutput(StdLoop(std, pc, rd, pgs, interpret_region = "True", w2,
                             [n |-> <<>>, how |-> <<>>, asked |-> <<>>, warned |-> 0]),
                     w1, output)
            @@ [caller |-> TitleAll(w).old]

\* ------------------------------------------------------------------------
\* GeoInfo
\* ------------------------------------------------------------------------
\* the keys of GeoInfo._list_field
list_field ==
    << "continent_code", "continent_name", "country_name", "population", "area",
       "fertility", "median_age", "urban_rate", "geometry", "region_code_list",
       "region_name_list", "capital", "flag" >>

PopulationFields == {"population", "area", "fertility", "median_age", "urban_rate"}

\* the class attributes _data_geometry, _data_population, _data_flag
ClassAttr == EmptyDF

\* an instance attribute that was never assigned
Unset == [set |-> FALSE, df |-> EmptyDF]

\* self._data_xxx: the instance attribute when assigned, else the class one
Attr(a) == IF a.set THEN a.df ELSE ClassAttr

\* pycountry_convert.country_alpha2_to_continent_code, "" for a KeyError
country_alpha2_to_continent_code(k) ==
    CASE k \in {"FR", "DE", "IT", "GB"} -> "EU"
      [] k = "JP" -> "AS"
      [] k \in {"CA", "US"} -> "NA"
      [] OTHER -> ""

\* pycountry_convert.convert_continent_code_to_continent_name
convert_continent_code_to_continent_name(c) ==
    CASE c = "EU" -> "Europe"
      [] c = "AS" -> "Asia"
      [] c = "NA" -> "North America"
      [] OTHER -> ""

\* pycountry_convert.country_alpha2_to_country_name, "" for a KeyError
country_alpha2_to_country_name(k) ==
    IF k \in {Countries[j].alpha_2 : j \in 1..Len(Countries)}
    THEN Countries[CHOOSE j \in 1..Len(Countries) : Countries[j].alpha_2 = k].name
    ELSE ""

\* field_descr: the prefix expected of each source column and its new name
field_descr ==
    << <<"", "idx">>, <<"Country", "country">>, <<"Population", "population">>,
       <<"Land Area", "area">>, <<"Fert", "fertility">>, <<"Med", "median_age">>,
       <<"Urban", "urban_rate">> >>

\* col.startswith(prefix) on the column names the demographic page can show
startswith(col, prefix) ==
    \/ prefix = ""
    \/ <<col, prefix>> \in
         { <<"Country (or dependency)", "Country">>,
           <<"Population (2020)", "Population">>,
           <<"Land Area (Km2)", "Land Area">>,
           <<"Fert. Rate", "Fert">>,
           <<"Med. Age", "Med">>,
           <<"Urban Pop %", "Urban">> }

\* p = p: no copy, p stays the caller's object
DataFrameAlias(t) == [p |-> t, shared |-> TRUE]

\* p = p.copy(): a new object, no longer the caller's
DataFrameCopy(t) == [p |-> t, shared |-> FALSE]

\* p[c] = cells, in place: it is the caller's object too while p is shared
PSet(st, c, cells) ==
    IF Len(cells) # Len(st.p.rows) THEN [st EXCEPT !.err = "ValueError"]
    ELSE [st EXCEPT !.p = SetItem(st.p, c, cells),
                    !.caller = IF st.shared THEN SetItem(st.p, c, cells) ELSE @]

\* p = <a new table>: p no longer names the caller's object
Rebind(st, t) == [st EXCEPT !.p = t, !.shared = FALSE]

\* self._data_population['iso3_tmp2'] = to_standard(..., db='worldometers'),
\* ts being what to_standard gave for the renamed table's country column
SetIso3Tmp2(st, renamed, ts) ==
    IF ts.kind # "return" THEN [st EXCEPT !.pop.df = renamed, !.err = ts.kind]
    ELSE [st EXCEPT !.pop.df =
            SetItem(renamed, "iso3_tmp2", [r \in 1..Len(ts.n) |-> S(ts.n[r])])]

\* the fetched table got is first assigned to self._data_population, then
\* its column names are checked, replaced and the iso3 key column added
CheckAndRename(st, got, ctx) ==
    IF ~ \A k \in 1..Len(got.cols) : startswith(got.cols[k], field_descr[k][1])
    THEN [st EXCEPT !.err = "CoaDbError"]
    ELSE SetIso3Tmp2(st,
            [cols |-> [k \in 1..Len(field_descr) |-> field_descr[k][2]],
             rows |-> got.rows],
            to_standard("iso3", ctx.pc, ctx.rd, ctx.pgs,
                        [r \in 1..Len(got.rows) |-> Item(Column(got, got.cols[2])[r])],
                        "list", "worldometers", "False"))

\* the lazy fetch of the demographic table into self._data_population
FetchPopulation(st, ctx) ==
    CheckAndRename([st EXCEPT !.pop = [set |-> TRUE, df |-> ctx.web.population],
                              !.nf.population = @ + 1],
                   ctx.web.population, ctx)

\* the SSD row appended and the geometry of SSD and SDN replaced
PatchGeometry(t) ==
    [cols |-> t.cols,
     rows |-> [r \in 1..Len(t.rows) + 1 |->
                 IF r > Len(t.rows) THEN <<S("SSD"), Datum("patch", "SSD")>>
                 ELSE IF Item(t.rows[r][1]) \in {"SSD", "SDN"}
                 THEN <<t.rows[r][1], Datum("patch", Item(t.rows[r][1]))>>
                 ELSE t.rows[r]]]

\* the lazy fetch of the polygons into self._data_geometry
FetchGeometry(st, ctx) ==
    [st EXCEPT !.geo = [set |-> TRUE,
                        df |-> PatchGeometry([cols |-> <<"id_tmp", "geometry">>,
                                              rows |-> ctx.web.geometry.rows])],
               !.nf.geometry = @ + 1]

\* the lazy fetch of the flag listing into self._data_flag
FetchFlag(st, ctx) ==
    [st EXCEPT !.flag = [set |-> TRUE,
                         df |-> SetItem(ctx.web.flag, "flag_url",
                                   [r \in 1..Len(ctx.web.flag.rows) |->
                                      [k |-> "str",
                                       v |-> <<"http:">> \o Column(ctx.web.flag, "file_url")[r].v]])],
               !.nf.flag = @ + 1]

\* p = p.merge(cache[[key, col]], how='left', left_on='iso3_tmp',
\* right_on=key, suffixes=sfx).drop([key], axis=1); a KeyError when the
\* cached table lacks one of the two columns
MergeCache(st, cache, key, col, sfx) ==
    IF st.err # "" THEN st
    ELSE IF ~ (HasCol(cache, key) /\ HasCol(cache, col)) THEN [st EXCEPT !.err = "KeyError"]
    ELSE Rebind(st, drop(merge(st.p, Select(cache, <<key, col>>), "iso3_tmp", key, sfx),
                         {key}))

\* p[f] = [convert(k) for k in countries_iso2], a KeyError when convert
\* knows no such code
SetFromIso2(st, f, vals) ==
    IF \E r \in 1..Len(vals) : vals[r] = "" THEN [st EXCEPT !.err = "KeyError"]
    ELSE PSet(st, f, [r \in 1..Len(vals) |-> S(vals[r])])

\* the strategy of field f on the table p, f no longer a column of it
Strategy(st, f, ctx) ==
    IF f = "continent_code" THEN
        SetFromIso2(st, f, [r \in 1..Len(ctx.iso2) |->
                              country_alpha2_to_continent_code(ctx.iso2[r])])
    ELSE IF f = "continent_name" THEN
        SetFromIso2(st, f, [r \in 1..Len(ctx.iso2) |->
                              convert_continent_code_to_continent_name(
                                  country_alpha2_to_continent_code(ctx.iso2[r]))])
    ELSE IF f = "country_name" THEN
        SetFromIso2(st, f, [r \in 1..Len(ctx.iso2) |->
                              country_alpha2_to_country_name(ctx.iso2[r])])
    ELSE IF f \in PopulationFields THEN
        IF empty(Attr(st.pop))
        THEN MergeCache(FetchPopulation(st, ctx), Attr(FetchPopulation(st, ctx).pop),
                        "iso3_tmp2", f, <<"", "_tmp">>)
        ELSE MergeCache(st, Attr(st.pop), "iso3_tmp2", f, <<"", "_tmp">>)
    ELSE IF f \in {"region_code_list", "region_name_list"} THEN
        PSet(st, f,
             groupby_list(merge(st.p,
                                Select(ctx.grp, <<"iso3", IF f = "region_code_list"
                                                          THEN "region" ELSE "region_name">>),
                                "iso3_tmp", "iso3", <<"", "_tmp">>),
                          "iso3_tmp",
                          IF f = "region_code_list" THEN "region" ELSE "region_name"))
    ELSE IF f = "capital" THEN
        PSet(st, f,
             SubSeq(Column(merge(st.p, drop_duplicates(Select(ctx.grp, <<"iso3", f>>)),
                                 "iso3_tmp", "iso3", <<"", "_tmp">>), f),
                    1, Len(st.p.rows)))
    ELSE IF f = "geometry" THEN
        IF empty(Attr(st.geo))
        THEN MergeCache(FetchGeometry(st, ctx), Attr(FetchGeometry(st, ctx).geo),
                        "id_tmp", "geometry", <<"", "_tmp">>)
        ELSE MergeCache(st, Attr(st.geo), "id_tmp", "geometry", <<"", "_tmp">>)
    ELSE IF f = "flag" THEN
        IF empty(Attr(st.flag))
        THEN MergeCache(FetchFlag(st, ctx), Attr(FetchFlag(st, ctx).flag),
                        "alpha3", "flag_url", <<"_x", "_y">>)
        ELSE MergeCache(st, Attr(st.flag), "alpha3", "flag_url", <<"_x", "_y">>)
    ELSE st

\* one iteration of the loop over the requested fields: an existing
\* column f is dropped first
Field(st, f, ctx) ==
    IF HasCol(st.p, f) THEN Strategy(Rebind(st, drop(st.p, {f})), f, ctx)
    ELSE Strategy(st, f, ctx)

RECURSIVE FieldLoop(_, _, _)
\* for f in fl: ..., left at the first exception
FieldLoop(st, fl, ctx) ==
    IF fl = <<>> \/ st.err # "" THEN st
    ELSE FieldLoop(Field(st, Head(fl), ctx), Tail(fl), ctx)

\* what a call of add_field leaves behind: its result res (kind "return"
\* with the table df, or the exception raised), the GeoManager's standard,
\* the instance's attributes, the fetch counts and the caller's table
Out(res, s, st) ==
    [res |-> res, standard |-> s, pop |-> st.pop, geo |-> st.geo,
     flag |-> st.flag, nf |-> st.nf, caller |-> st.caller]

\* the end of add_field: the temporary columns dropped from the result
Finish(st) ==
    IF st.err # "" THEN Out(Raise(st.err), "iso3", st)
    ELSE Out([kind |-> "return", df |-> drop(st.p, {"iso2_tmp", "iso3_tmp"})], "iso3", st)

\* from set_standard('iso2') on: ts2 and ts3 are what to_standard gives
\* for the geofield column under iso2 and under iso3
Augment(st, kw, ctx, ts2, ts3) ==
    IF ts2.kind # "return" THEN Out(Raise(ts2.kind), "iso2", st)
    ELSE IF ts3.kind # "return" THEN Out(Raise(ts3.kind), "iso3", st)
    ELSE Finish(FieldLoop(PSet(PSet(st, "iso2_tmp", [r \in 1..Len(ts2.n) |-> S(ts2.n[r])]),
                               "iso3_tmp", [r \in 1..Len(ts3.n) |-> S(ts3.n[r])]),
                          kw.field.val,
                          [iso2 |-> ts2.n, iso3 |-> ts3.n] @@ ctx))

\* the checks of the arguments when the names of fl are not looked up in
\* get_list_field()
ValidateFieldsLazily(st, std, kw, ctx, w) ==
    IF kw.overload \notin {"True", "False"} THEN Out(Raise("CoaTypeError"), std, st)
    ELSE IF kw.field.kind = "none" THEN Out(Raise("CoaKeyError"), std, st)
    ELSE IF kw.overload = "False"
            /\ ~ \A k \in 1..Len(kw.field.val) : ~ HasCol(st.p, kw.field.val[k])
    THEN Out(Raise("CoaKeyError"), std, st)
    ELSE IF ~ HasCol(st.p, kw.geofield) THEN Out(Raise("CoaKeyError"), std, st)
    ELSE Augment(st, kw, ctx,
                 to_standard("iso2", ctx.pc, ctx.rd, ctx.pgs, w, "list", "None", "False"),
                 to_standard("iso3", ctx.pc, ctx.rd, ctx.pgs, w, "list", "None", "False"))

\* the checks of the arguments when an existing column is refused whatever
\* overload is
ValidateNeverOverloads(st, std, kw, ctx, w) ==
    IF kw.overload \notin {"True", "False"} THEN Out(Raise("CoaTypeError"), std, st)
    ELSE IF kw.field.kind = "none" THEN Out(Raise("CoaKeyError"), std, st)
    ELSE IF ~ \A k \in 1..Len(kw.field.val) : kw.field.val[k] \in Range(list_field)
    THEN Out(Raise("CoaKeyError"), std, st)
    ELSE IF ~ \A k \in 1..Len(kw.field.val) : ~ HasCol(st.p, kw.field.val[k])
    THEN Out(Raise("CoaKeyError"), std, st)
    ELSE IF ~ HasCol(st.p, kw.geofield) THEN Out(Raise("CoaKeyError"), std, st)
    ELSE Augment(st, kw, ctx,
                 to_standard("iso2", ctx.pc, ctx.rd, ctx.pgs, w, "list", "None", "False"),
                 to_standard("iso3", ctx.pc, ctx.rd, ctx.pgs, w, "list", "None", "False"))

\* the checks of the arguments, on the copy of the input
Validate(st, std, kw, ctx, w) ==
    IF kw.overload \notin {"True", "False"} THEN Out(Raise("CoaTypeError"), std, st)
    ELSE IF kw.field.kind = "none" THEN Out(Raise("CoaKeyError"), std, st)
    ELSE IF ~ \A k \in 1..Len(kw.field.val) : kw.field.val[k] \in Range(list_field)
    THEN Out(Raise("CoaKeyError"), std, st)
    ELSE IF kw.overload = "False"
            /\ ~ \A k \in 1..Len(kw.field.val) : ~ HasCol(st.p, kw.field.val[k])
    THEN Out(Raise("CoaKeyError"), std, st)
    ELSE IF ~ HasCol(st.p, kw.geofield) THEN Out(Raise("CoaKeyError"), std, st)
    ELSE Augment(st, kw, ctx,
                 to_standard("iso2", ctx.pc, ctx.rd, ctx.pgs, w, "list", "None", "False"),
                 to_standard("iso3", ctx.pc, ctx.rd, ctx.pgs, w, "list", "None", "False"))

\* the state of a call when it starts: p is the caller's table
Start(self, kw, ctx) ==
    [p |-> kw.input.df, shared |-> TRUE, caller |-> kw.input.df,
     pop |-> self.pop, geo |-> self.geo, flag |-> self.flag,
     nf |-> ctx.nf, err |-> ""]

\* GeoInfo.add_field(input=, field=, geofield=, overload=) on the instance
\* whose attributes are self, the GeoManager's standard being std
add_field(self, std, kw, ctx) ==
    IF ~ kw.input.isdf THEN Out(Raise("CoaTypeError"), std, Start(self, kw, ctx))
    ELSE Validate([Start(self, kw, ctx) EXCEPT
                      !.p = DataFrameCopy(kw.input.df).p,
                      !.shared = DataFrameCopy(kw.input.df).shared],
                  std, kw, ctx,
                  IF HasCol(kw.input.df, kw.geofield)
                  THEN [r \in 1..Len(kw.input.df.rows) |->
                          Item(Column(kw.input.df, kw.geofield)[r])]
                  ELSE <<>>)

\* ------------------------------------------------------------------------
\* The external sources
\* ------------------------------------------------------------------------
\* the UN M49 page: region code, region name, annotation in parentheses
M49Page ==
    << [code |-> "1", name |-> "World", note |-> ""],
       [code |-> "150", name |-> "Europe", note |-> ""],
       [code |-> "155", name |-> "Western Europe", note |-> ""],
       [code |-> "142", name |-> "Asia", note |-> ""],
       [code |-> "30", name |-> "Eastern Asia", note |-> ""] >>

\* the UN geoscheme page: country, capital, iso3 and its region codes
GeoSchemePage ==
    << [country |-> "France", capital |-> "Paris", iso3 |-> "FRA",
        m49 |-> <<"155", "150", "1">>],
       [country |-> "Germany", capital |-> "Berlin", iso3 |-> "DEU",
        m49 |-> <<"155", "150", "1">>],
       [country |-> "Japan", capital |-> "Tokyo", iso3 |-> "JPN",
        m49 |-> <<"30", "142", "1">>],
       [country |-> "Kosovo", capital |-> "Pristina", iso3 |-> NonStandardIso,
        m49 |-> <<"39", "150", "1">>] >>

\* the same page when it lists Japan a second time, with another capital
GeoSchemePageTwice ==
    Append(GeoSchemePage,
           [country |-> "Japan", capital |-> "Kyoto", iso3 |-> "JPN",
            m49 |-> <<"30">>])

\* the same page when the iso3 cell of one of its rows, a row of Eastern
\* Asia, reads G7
GeoSchemePageNested ==
    Append(GeoSchemePage,
           [country |-> "Group of Seven", capital |-> "", iso3 |-> "G7",
            m49 |-> <<"30">>])

\* the two pages when they know a region named European Union, of which
\* Japan is a member
M49PageUnion ==
    Append(M49Page, [code |-> "997", name |-> "European Union", note |-> ""])

GeoSchemePageUnion == [GeoSchemePage EXCEPT ![3].m49 = Append(@, "997")]

\* the column names of the demographic page, at the positions field_descr
\* selects
PopulationCols ==
    << "#", "Country (or dependency)", "Population (2020)", "Land Area (Km2)",
       "Fert. Rate", "Med. Age", "Urban Pop %" >>

\* the same page after the site renamed its population column
DriftedCols == [PopulationCols EXCEPT ![3] = "Inhabitants"]

\* the demographic page listing the countries names, one row each
PopulationPage(names) ==
    [cols |-> PopulationCols,
     rows |-> [r \in 1..Len(names) |->
                 <<Datum("idx", names[r]), S(names[r]), Datum("population", names[r]),
                   Datum("area", names[r]), Datum("fertility", names[r]),
                   Datum("median_age", names[r]), Datum("urban_rate", names[r])>>]]

Iso3Of(name) == Countries[lookup(name)].alpha_3

\* the world borders file, ISO3 and geometry, one row per country listed
GeometryFile(names) ==
    [cols |-> <<"ISO3", "geometry">>,
     rows |-> [r \in 1..Len(names) |-> <<S(Iso3Of(names[r])), Datum("shape", names[r])>>]]

\* the flag listing, alpha3 and file_url, one row per country listed
FlagFile(names) ==
    [cols |-> <<"alpha3", "file_url">>,
     rows |-> [r \in 1..Len(names) |-> <<S(Iso3Of(names[r])), Datum("//flags", names[r])>>]]

\* the three reference sources when they list the countries names
Web(names) ==
    [population |-> PopulationPage(names), geometry |-> GeometryFile(names),
     flag |-> FlagFile(names)]

\* ------------------------------------------------------------------------
\* State
\* ------------------------------------------------------------------------
VARIABLES
    standard,       \* GeoManager._standard of the caller's GeoManager
    catalogue,      \* "ok", or the function of pycountry that raises an
                    \* exception other than LookupError when called
    region_dict,    \* GeoRegion._region_dict, the items in insertion order
    p_gs,           \* GeoRegion._p_gs of the GeoManager's catalogue
    self,           \* per GeoInfo instance: _data_population (pop),
                    \* _data_geometry (geo), _data_flag (flag)
    web,            \* what the external reference sources hold
    pages,          \* the two pages GeoRegion reads (m49, gs), and how many
                    \* times each was read so far (nread)
    nfetch,         \* fetches of each reference source so far
    failed,         \* some add_field call so far raised
    call            \* the call that just ended: arguments, state before, result

vars == <<standard, catalogue, region_dict, p_gs, self, web, pages, nfetch, failed, call>>

Instances == {1, 2}

NoCall == [op |-> "none"]

\* after gm = GeoManager(standard), whose GeoRegion read the pages m49 and
\* gs, and GeoInfo(gm) for every instance
InitWith(webs, m49, gs) ==
    /\ standard \in Range(list_standard)
    /\ catalogue = "ok"
    /\ region_dict = GeoRegion_init(<<>>, m49, gs).region_dict
    /\ p_gs = GeoRegion_init(<<>>, m49, gs).p_gs
    /\ self = [i \in Instances |-> [pop |-> Unset, geo |-> Unset, flag |-> Unset]]
    /\ web \in webs
    /\ pages = [m49 |-> m49, gs |-> gs, nread |-> [m49 |-> 1, gs |-> 1]]
    /\ nfetch = [population |-> 0, geometry |-> 0, flag |-> 0]
    /\ failed = FALSE
    /\ call = NoCall

\* ------------------------------------------------------------------------
\* Operations
\* ------------------------------------------------------------------------
\* the state after a call of add_field by instance i that left r behind
Returned(i, kw, r) ==
    /\ standard' = r.standard
    /\ self' = [self EXCEPT ![i] = [pop |-> r.pop, geo |-> r.geo, flag |-> r.flag]]
    /\ nfetch' = r.nf
    /\ failed' = (failed \/ r.res.kind # "return")
    /\ call' = [op |-> "add_field", inst |-> i, kw |-> kw, res |-> r.res,
                caller |-> r.caller,
                before |-> [standard |-> standard, self |-> self,
                            nfetch |-> nfetch, web |-> web]]
    /\ UNCHANGED <<catalogue, region_dict, p_gs, web, pages>>

\* GeoInfo instance i runs add_field(**kw)
AddField(i, kw) ==
    /\ call = NoCall
    /\ \A t \in DOMAIN nfetch : nfetch[t] < MaxFetch
    /\ Returned(i, kw, add_field(self[i], standard, kw,
                                 [rd |-> region_dict, pgs |-> p_gs, grp |-> p_gs,
                                  web |-> web, nf |-> nfetch, pc |-> catalogue]))

\* the demographic site renames a column
SchemaDrift ==
    /\ call = NoCall
    /\ web.population.cols = PopulationCols
    /\ web' = [web EXCEPT !.population.cols = DriftedCols]
    /\ UNCHANGED <<standard, catalogue, region_dict, p_gs, self, pages, nfetch, failed,
                   call>>

\* the caller runs gm.set_standard(s)
SetStandard(s) ==
    /\ call = NoCall
    /\ standard' = set_standard(standard, s).standard
    /\ call' = [op |-> "set_standard", kw |-> [standard |-> s],
                res |-> set_standard(standard, s).res,
                before |-> [standard |-> standard]]
    /\ UNCHANGED <<catalogue, region_dict, p_gs, self, web, pages, nfetch, failed>>

\* GeoManager(standard=s), the object being dropped afterwards: the
\* standard is validated on the new object, then a new GeoRegion reads the
\* two pages again and updates the dictionary of the class; the caller's
\* own GeoManager keeps its standard and its relation
GeoManager_init(s) ==
    IF set_standard("None", s).res.kind # "return"
    THEN /\ call' = [op |-> "GeoManager", kw |-> [standard |-> s],
                     res |-> set_standard("None", s).res,
                     before |-> [region_dict |-> region_dict, nread |-> pages.nread]]
         /\ UNCHANGED <<region_dict, pages>>
    ELSE /\ region_dict' = GeoRegion_init(region_dict, pages.m49, pages.gs).region_dict
         /\ pages' = [pages EXCEPT !.nread.m49 = @ + 1, !.nread.gs = @ + 1]
         /\ call' = [op |-> "GeoManager", kw |-> [standard |-> s],
                     res |-> [kind |-> "return"],
                     before |-> [region_dict |-> region_dict, nread |-> pages.nread]]

\* the caller runs GeoManager(s)
NewGeoManager(s) ==
    /\ call = NoCall
    /\ pages.nread.m49 <= MaxFetch
    /\ GeoManager_init(s)
    /\ UNCHANGED <<standard, catalogue, p_gs, self, web, nfetch, failed>>

\* the caller runs GeoInfo(), which builds its own GeoManager() with the
\* default standard; the new instance is dropped afterwards
NewGeoInfo ==
    /\ call = NoCall
    /\ pages.nread.m49 <= MaxFetch
    /\ GeoManager_init(list_standard[1])
    /\ UNCHANGED <<standard, catalogue, p_gs, self, web, nfetch, failed>>

\* what to_standard hands back: the record r without the caller's list
Result(r) == [f \in DOMAIN r \ {"caller"} |-> r[f]]

\* the record of a call of to_standard that ended as r: its arguments, its
\* result, the caller's list after it, and the state before it
ToStandardCall(w, output, db, interpret_region, r) ==
    [op |-> "to_standard",
     kw |-> [w |-> w, output |-> output, db |-> db,
             interpret_region |-> interpret_region],
     res |-> Result(r),
     caller |-> r.caller,
     before |-> [standard |-> standard, region_dict |-> region_dict, p_gs |-> p_gs]]

\* the caller runs gm.to_standard(w, output=, db=, interpret_region=)
ToStandard(w, output, db, interpret_region) ==
    /\ call = NoCall
    /\ call' = ToStandardCall(w, output, db, interpret_region,
                               to_standard(standard, catalogue, region_dict, p_gs, w,
                                           output, db, interpret_region))
    /\ UNCHANGED <<standard, catalogue, region_dict, p_gs, self, web, pages, nfetch, failed>>

\* the country catalogue breaks: from now on its function f raises an
\* exception that is no LookupError
CatalogueFails(f) ==
    /\ call = NoCall
    /\ catalogue = "ok"
    /\ catalogue' = f
    /\ UNCHANGED <<standard, region_dict, p_gs, self, web, pages, nfetch, failed, call>>

\* the caller runs GeoRegion.get_countries_from_region(region)
GetCountries(region) ==
    /\ call = NoCall
    /\ call' = [op |-> "get_countries_from_region", kw |-> [region |-> region],
                res |-> get_countries_from_region(region_dict, p_gs, region)]
    /\ UNCHANGED <<standard, catalogue, region_dict, p_gs, self, web, pages, nfetch, failed>>

\* the caller is done with the result of the last call
Done ==
    /\ call # NoCall
    /\ call' = NoCall
    /\ UNCHANGED <<standard, catalogue, region_dict, p_gs, self, web, pages, nfetch, failed>>

\* ------------------------------------------------------------------------
\* The calls explored
\* ------------------------------------------------------------------------
DF(t) == [isdf |-> TRUE, df |-> t]

\* an input that is no DataFrame
NotDF == [isdf |-> FALSE, df |-> EmptyDF]

\* field=None, field=[...], field='name'
NoField == [kind |-> "none", val |-> <<>>]

FieldList(fl) == [kind |-> "list", val |-> fl]

FieldStr(f) == [kind |-> "str", val |-> <<f>>]

\* a caller's table: the column location, then the columns extra
InputTable(extra, locs) ==
    [cols |-> <<"location">> \o extra,
     rows |-> [r \in 1..Len(locs) |->
                 <<S(locs[r])>> \o [k \in 1..Len(extra) |-> Datum("old", locs[r])]]]

Kw(input, field, geofield, overload) ==
    [input |-> input, field |-> field, geofield |-> geofield, overload |-> overload]

\* one field name per strategy of add_field, and a name that is no field
SomeFields ==
    {"country_name", "population", "region_name_list", "capital", "geometry",
     "flag", "bogus"}

Locations == {"France", "Atlantis"}

\* calls that differ in what validation sees
ValidationCalls ==
    {Kw(input, field, geofield, overload) :
        input \in {NotDF, DF(InputTable(<<"population">>, <<"France">>))},
        field \in {NoField, FieldStr("population"), FieldStr("bogus")}
                 \cup {FieldList(fl) : fl \in SeqsUpTo({"population", "bogus"}, MaxFields)},
        geofield \in {"location", "where"},
        overload \in {"True", "False", "1"}}

\* calls on every table, of one field; calls on two tables, of every list
\* of fields
ProcessingCalls ==
    {Kw(DF(InputTable(extra, locs)), FieldList(fl), "location", overload) :
        extra \in {<<>>, <<"population">>, <<"flag">>},
        locs \in SeqsUpTo(Locations, MaxRows),
        fl \in SeqsUpTo(SomeFields, 1),
        overload \in {"True", "False"}}
    \cup
    {Kw(DF(t), FieldList(fl), "location", overload) :
        t \in {InputTable(<<>>, <<"France">>),
               InputTable(<<"population">>, <<"France", "France">>)},
        fl \in SeqsUpTo(SomeFields, MaxFields),
        overload \in {"True", "False"}}

\* calls of one field on tables of countries the sources may list twice
RowCountries == {"France", "Japan"}

RowCalls ==
    {Kw(DF(InputTable(<<>>, locs)), FieldList(<<f>>), "location", "False") :
        locs \in SeqsUpTo(RowCountries, MaxRows),
        f \in Range(list_field)}

\* calls that use the reference tables, on one table
CacheCalls ==
    {Kw(DF(InputTable(<<>>, <<"France">>)), FieldList(fl), "location", "False") :
        fl \in {<<"population">>, <<"area">>, <<"geometry">>, <<"flag">>,
                <<"population", "area">>}}

\* the strings handed to to_standard
SomeNames ==
    {"G7", "g7", "France", "Atlantis", "", "United"}

\* the lists to_standard is given with every combination of options
OptionLists ==
    {<<"France">>, <<"FRANCE">>, <<"">>, <<"Atlantis">>, <<"<int 250>">>,
     <<"Diamond Princess", "United">>, <<"Eastern Asia", "France">>,
     <<"iran", "France">>}

SomeOutputs == {"list", "dict", "pandas", "json"}

SomeDbs == {"None", "jhu", "worldometers", "owid", "ecdc", "<int 250>"}

\* the names handed to get_countries_from_region
SomeRegions == {"European Union", "european union", "G7", "Eastern Asia", "Atlantis"}

\* ------------------------------------------------------------------------
\* Specifications
\* ------------------------------------------------------------------------
\* one GeoInfo instance, its caller's calls of add_field
Init == InitWith({Web(<<"France", "Germany">>)}, M49Page, GeoSchemePage)

Next ==
    \/ \E kw \in ValidationCalls \cup ProcessingCalls : AddField(1, kw)
    \/ SchemaDrift
    \/ Done

Spec == Init /\ [][Next]_vars

\* one GeoInfo instance, reference sources that may list a country twice
InitRows ==
    \/ InitWith({Web(names) : names \in NonEmptySeqsUpTo(RowCountries, MaxSrcRows)},
                M49Page, GeoSchemePage)
    \/ InitWith({Web(<<"France", "Japan">>)}, M49Page, GeoSchemePageTwice)

NextRows ==
    \/ \E kw \in RowCalls : AddField(1, kw)
    \/ \E region \in SomeRegions : GetCountries(region)
    \/ Done

SpecRows == InitRows /\ [][NextRows]_vars

\* two GeoInfo instances on the same GeoManager
\* the sources list two countries, or their tables have no row at all
InitShared ==
    \/ InitWith({Web(<<"France", "Germany">>), Web(<<>>)}, M49Page, GeoSchemePage)
    \/ InitWith({Web(<<"France", "Germany">>)}, M49Page, GeoSchemePageNested)

NextShared ==
    \/ \E i \in Instances, kw \in CacheCalls : AddField(i, kw)
    \/ SchemaDrift
    \/ \E s \in Range(list_standard) \cup {"numeric"} : NewGeoManager(s)
    \/ NewGeoInfo
    \/ \E w \in {<<"France">>, <<"G7">>, <<"Eastern Asia", "France">>},
          interpret_region \in {"True", "False"} :
          ToStandard(w, "list", "None", interpret_region)
    \/ Done

SpecShared == InitShared /\ [][NextShared]_vars

\* calls of to_standard on the caller's GeoManager
InitResolve ==
    \/ InitWith({Web(<<"France", "Germany">>)}, M49Page, GeoSchemePage)
    \/ InitWith({Web(<<"France", "Germany">>)}, M49PageUnion, GeoSchemePageUnion)

NextResolve ==
    \/ \E w \in SeqsUpTo(SomeNames, MaxNames), interpret_region \in {"True", "False"} :
          ToStandard(w, "list", "None", interpret_region)
    \/ \E w \in OptionLists, output \in SomeOutputs, db \in SomeDbs,
          interpret_region \in {"True", "False", "1"} :
          ToStandard(w, output, db, interpret_region)
    \/ \E s \in Range(list_standard) \cup {"alpha3", "numeric"} \cup Ints : SetStandard(s)
    \/ \E f \in {"lookup", "search_fuzzy"} : CatalogueFails(f)
    \/ \E region \in SomeRegions : GetCountries(region)
    \/ Done

SpecResolve == InitResolve /\ [][NextResolve]_vars

\* ------------------------------------------------------------------------
\* Properties
\* ------------------------------------------------------------------------
\* the last call was a call of add_field
IsAddField == call.op = "add_field"

\* the arguments kw pass every check of add_field
Accepted(kw) ==
    /\ kw.input.isdf
    /\ kw.overload \in {"True", "False"}
    /\ kw.field.kind # "none"
    /\ Range(kw.field.val) \subseteq Range(list_field)
    /\ kw.overload = "False" => \A f \in Range(kw.field.val) : ~ HasCol(kw.input.df, f)
    /\ HasCol(kw.input.df, kw.geofield)

\* every location of the table of kw is a country of the catalogue
Resolvable(kw) ==
    \A r \in 1..Len(kw.input.df.rows) :
        lookup(title(Item(Column(kw.input.df, kw.geofield)[r]))) # 0

\* no two rows of the table t have the same value in column c
UniqueKey(t, c) ==
    HasCol(t, c) =>
        \A i, j \in 1..Len(t.rows) : Column(t, c)[i] = Column(t, c)[j] => i = j

\* C1: as long as every call of add_field returned, on whichever instance,
\* each reference table has been fetched from its source at most once.
C1_FetchedOncePerProcess ==
    ~ failed => \A t \in DOMAIN nfetch : nfetch[t] <= 1

\* C2: whatever add_field call was made, returning or raising, the
\* GeoManager's current standard after it is the one before it.
C2_StandardUnchanged ==
    IsAddField => standard = call.before.standard

\* the last call was accepted, had every location resolved and asked for
\* the one field f
Asked(f) ==
    /\ IsAddField
    /\ Accepted(call.kw)
    /\ Resolvable(call.kw)
    /\ call.kw.field.val = <<f>>

\* the values of column col of the flattened relation for the country
\* iso3, in the relation's order
RegionsOf(iso3, col) ==
    LET of_country(row) == Item(row[IndexOf(p_gs.cols, "iso3", 1)]) = iso3
        rows == SelectSeq(p_gs.rows, of_country)
    IN [k \in 1..Len(rows) |-> Item(rows[k][IndexOf(p_gs.cols, col, 1)])]

\* the iso3 code of the country named in row r of the last call's table
RowIso3(r) ==
    Iso3Of(title(Item(Column(call.kw.input.df, call.kw.geofield)[r])))

\* C3: for a region-list field, whatever the order of the rows and however
\* often a country appears, add_field returns one list cell per input row,
\* the cell of row r being the list of the regions of the country of row r.
C3_RegionListPerRow ==
    \A f \in {"region_code_list", "region_name_list"} :
        Asked(f) =>
            /\ call.res.kind = "return"
            /\ Len(call.res.df.rows) = Len(call.kw.input.df.rows)
            /\ \A r \in 1..Len(call.kw.input.df.rows) :
                  Column(call.res.df, f)[r] =
                      L(RegionsOf(RowIso3(r),
                                  IF f = "region_code_list" THEN "region" ELSE "region_name"))

SingleValued ==
    {"continent_code", "continent_name", "country_name", "population", "area",
     "fertility", "median_age", "urban_rate", "capital", "geometry", "flag"}

\* the reference table the field f is joined from, as the instance of the
\* last call holds it now, and its key column; no table for the fields that
\* are written in place
JoinedTable(f) ==
    IF f \in PopulationFields THEN Attr(self[call.inst].pop)
    ELSE IF f = "geometry" THEN Attr(self[call.inst].geo)
    ELSE IF f = "flag" THEN Attr(self[call.inst].flag)
    ELSE EmptyDF

JoinedKey(f) ==
    IF f \in PopulationFields THEN "iso3_tmp2"
    ELSE IF f = "geometry" THEN "id_tmp"
    ELSE "alpha3"

\* the rows of JoinedTable(f) whose key is the code of input row r
MatchesOf(f, r) ==
    IF ~ HasCol(JoinedTable(f), JoinedKey(f)) THEN {}
    ELSE {k \in 1..Len(JoinedTable(f).rows) :
             Item(Column(JoinedTable(f), JoinedKey(f))[k]) = RowIso3(r)}

\* C4 as stated: for a single-valued field add_field returns one row per
\* input row, whatever the reference table holds.
C4_OneRowPerInputRow ==
    \A f \in SingleValued :
        (Asked(f) /\ call.res.kind = "return")
            => Len(call.res.df.rows) = Len(call.kw.input.df.rows)

\* C4: for a single-valued field add_field returns, for every input row,
\* one row when the reference table joined holds no row for its iso3 code
\* and as many rows as the table holds for that code otherwise; so one row
\* per input row when no code occurs in two rows of the reference table,
\* and always for the fields that are not joined from a reference table.
C4_RowsPerReferenceRow ==
    \A f \in SingleValued :
        (Asked(f) /\ call.res.kind = "return") =>
            /\ Len(call.res.df.rows) =
                  Cardinality({r \in 1..Len(call.kw.input.df.rows) : MatchesOf(f, r) = {}})
                  + Cardinality({rk \in (1..Len(call.kw.input.df.rows))
                                          \X (1..Len(JoinedTable(f).rows)) :
                                    rk[2] \in MatchesOf(f, rk[1])})
            /\ UniqueKey(JoinedTable(f), JoinedKey(f))
                  => Len(call.res.df.rows) = Len(call.kw.input.df.rows)

\* a call for the population of two countries, one of them missing from
\* the demographic table, which lists no country twice: two rows returned
C4_Witness ==
    /\ Asked("population")
    /\ call.res.kind = "return"
    /\ Len(call.kw.input.df.rows) = 2
    /\ \E r \in 1..2 : MatchesOf("population", r) = {}
    /\ \E r \in 1..2 : MatchesOf("population", r) # {}
    /\ UniqueKey(JoinedTable("population"), "iso3_tmp2")
    /\ Len(call.res.df.rows) = 2

\* the last call, made again now with overload=True
C5_Retry ==
    add_field(self[call.inst], standard, [call.kw EXCEPT !.overload = "True"],
              [rd |-> region_dict, pgs |-> p_gs, grp |-> p_gs, web |-> web,
               nf |-> nfetch, pc |-> catalogue])

\* the last call had overload=False and asked for a field that is a column
\* of its table
C5_Case ==
    /\ IsAddField
    /\ call.kw.input.isdf
    /\ call.kw.overload = "False"
    /\ call.kw.field.kind # "none"
    /\ \E f \in Range(call.kw.field.val) : HasCol(call.kw.input.df, f)

C6_Case ==
    /\ IsAddField
    /\ call.kw.field.kind # "none"
    /\ ~ Range(call.kw.field.val) \subseteq Range(list_field)

\* C6 as stated: a call that asks for a name outside the catalogue fails
\* with a key error whatever its other arguments, and fetches nothing.
C6_UnknownFieldKeyError ==
    C6_Case =>
        /\ call.res.kind = "CoaKeyError"
        /\ nfetch = call.before.nfetch
        /\ self = call.before.self

\* C6: a call that asks for a name outside the catalogue always fails and
\* fetches nothing, the reference tables being after it as before it: with
\* a type error when the input is no DataFrame or overload no boolean, and
\* with a key error otherwise.
C6_UnknownFieldFails ==
    C6_Case =>
        /\ call.res.kind = IF call.kw.input.isdf /\ call.kw.overload \in {"True", "False"}
                           THEN "CoaKeyError" ELSE "CoaTypeError"
        /\ nfetch = call.before.nfetch
        /\ self = call.before.self

\* a call for population and then a name that is no field, on a table whose
\* other arguments are accepted, before any fetch of the demographic table
C6_Witness ==
    /\ C6_Case
    /\ call.kw.field.val = <<"population", "bogus">>
    /\ call.kw.input.isdf
    /\ call.kw.overload = "True"
    /\ HasCol(call.kw.input.df, call.kw.geofield)
    /\ call.before.nfetch.population = 0
    /\ call.res.kind = "CoaKeyError"

\* the last call was accepted, had every location resolved, asked first for
\* a population field, and was made when the demographic page had drifted
\* and the instance had no table cached from before the drift
C7_Case ==
    /\ IsAddField
    /\ Accepted(call.kw)
    /\ Resolvable(call.kw)
    /\ call.kw.field.val # <<>>
    /\ Head(call.kw.field.val) \in PopulationFields
    /\ call.before.web.population.cols = DriftedCols
    /\ \/ ~ call.before.self[call.inst].pop.set
       \/ call.before.self[call.inst].pop.df.cols = DriftedCols

\* C7: once the demographic page's columns have drifted, the first call
\* for a population field and every later one on the instance fails with
\* CoaDbError.
C7_DriftAlwaysDbError ==
    C7_Case => call.res.kind = "CoaDbError"

\* C8: after any call of add_field, returning or raising, the caller's
\* table has the columns, rows and values it had before the call.
C8_InputNotMutated ==
    IsAddField => call.caller = call.kw.input.df

\* a call that wrote its temporary columns and a field, and returned a
\* table with more columns than the caller's
C8_Witness ==
    /\ IsAddField
    /\ call.res.kind = "return"
    /\ Len(call.kw.input.df.rows) > 0
    /\ Len(call.res.df.cols) > Len(call.kw.input.df.cols)

\* C9: a call with field=[] fails instead of returning a table.
C9_EmptyFieldListRejected ==
    (IsAddField /\ call.kw.field.kind = "list" /\ call.kw.field.val = <<>>)
        => call.res.kind # "return"

\* C10: to_standard(["G7"], interpret_region=True) returns seven values, no
\* two the same, each from an exact lookup of a code of the hardcoded list,
\* looked up in the order get_countries_from_region gives.
C10_G7ExactLookups ==
    (/\ call.op = "to_standard"
     /\ call.kw.w = <<"G7">>
     /\ call.kw.interpret_region = "True"
     /\ call.kw.output = "list")
    => /\ call.res.kind = "return"
       /\ Len(call.res.n) = 7
       /\ Cardinality(Range(call.res.n)) = 7
       /\ call.res.asked = get_countries_from_region(region_dict, p_gs, "G7").val
       /\ \A k \in 1..Len(call.res.how) : call.res.how[k] = "exact"

\* the last call asked get_countries_from_region for the European Union
C11_Case ==
    /\ call.op = "get_countries_from_region"
    /\ title(call.kw.region) = "European Union"

\* C11 as stated: the list returned for the European Union is the
\* hardcoded list, of 27 codes all different, whatever the scraped relation
\* holds.
C11_UnionIsTheLiteral ==
    C11_Case =>
        /\ call.res.kind = "return"
        /\ Len(call.res.val) = 27
        /\ Cardinality(Range(call.res.val)) = 27
        /\ call.res.val = EuropeanUnion_clist

\* C11: whatever the scraped relation holds, the list returned for the
\* European Union has the 27 codes of the hardcoded list, each once, in
\* ascending order (the hardcoded list is not in that order).
C11_UnionIsTheLiteralSorted ==
    C11_Case =>
        /\ call.res.kind = "return"
        /\ Len(call.res.val) = 27
        /\ Cardinality(Range(call.res.val)) = 27
        /\ Range(call.res.val) = Range(EuropeanUnion_clist)
        /\ \A i, j \in 1..Len(call.res.val) :
              i < j => Rank(call.res.val[i]) < Rank(call.res.val[j])

\* the European Union was asked for when the scraped relation has a region
\* of that name with a member
C11_Witness ==
    /\ C11_Case
    /\ Iso3Where(p_gs, "European Union", 1) # <<>>
    /\ call.res.kind = "return"

\* the last call was a call of to_standard
IsToStandard == call.op = "to_standard"

\* the options of the last call of to_standard pass its checks
ValidOptions ==
    /\ call.kw.output \in Range(list_output)
    /\ call.kw.db \in Range(list_db)
    /\ call.kw.interpret_region \in {"True", "False"}
    /\ call.kw.interpret_region = "True" => call.kw.output = "list"

\* what to_standard gives now for the one-element list [x], with the
\* options of the last call
Alone(x) ==
    to_standard(standard, catalogue, region_dict, p_gs, <<x>>, call.kw.output,
                call.kw.db, call.kw.interpret_region)

RECURSIVE Concat(_)
Concat(ss) == IF ss = <<>> THEN <<>> ELSE Head(ss) \o Concat(Tail(ss))

\* the first of the results rs that is no return, the last one when all are
FirstFailure(rs) ==
    rs[CHOOSE k \in 1..Len(rs) :
          /\ rs[k].kind # "return" \/ k = Len(rs)
          /\ \A j \in 1..(k - 1) : rs[j].kind = "return"]

\* the result res of to_standard on the list w, given the results rs of
\* to_standard on each element of w alone: res is the concatenation of rs
\* when they all return, and fails as the first failure of rs otherwise
Concatenates(res, rs) ==
    IF \A k \in 1..Len(rs) : rs[k].kind = "return"
    THEN res.kind = "return" /\ res.n = Concat([k \in 1..Len(rs) |-> rs[k].n])
    ELSE res.kind = FirstFailure(rs).kind

\* C12: with interpret_region=True the values returned for a list are the
\* values returned for its first element alone, then those for its second
\* alone, and so on, a region name giving the values of its members in the
\* order of get_countries_from_region; a list fails as its first failing
\* element does.
C12_QueueOrder ==
    (/\ IsToStandard
     /\ ValidOptions
     /\ call.kw.interpret_region = "True"
     /\ \A k \in 1..Len(call.kw.w) : ~ IsInt(call.kw.w[k]))
    => /\ Concatenates(call.res, [k \in 1..Len(call.kw.w) |-> Alone(call.kw.w[k])])
       /\ \A x \in Range(call.kw.w) :
             (/\ title(x) \in Range(get_region_list(region_dict))
              /\ call.res.kind = "return") =>
                 Alone(x).asked = get_countries_from_region(region_dict, p_gs, x).val

\* a region and then a country were standardized: the seven values of the
\* region's members, then the country's
C12_Witness ==
    /\ IsToStandard
    /\ call.kw.interpret_region = "True"
    /\ call.kw.w = <<"G7", "France">>
    /\ call.res.kind = "return"
    /\ Len(call.res.n) = 8
    /\ call.res.n[8] = Alone("France").n[1]

\* the string c has neither an exact nor a fuzzy match in the catalogue
Unmatched(c) == c # "" /\ lookup(c) = 0 /\ search_fuzzy(c) = <<>>

\* the string c has no exact match and several fuzzy candidates
Ambiguous(c) == c # "" /\ lookup(c) = 0 /\ Len(search_fuzzy(c)) > 1

\* the queue of the last call of to_standard when its loop starts: the
\* inputs title-cased, then translated for the database
Queue ==
    IF call.kw.db = "None" THEN [k \in 1..Len(call.kw.w) |-> title(call.kw.w[k])]
    ELSE first_db_translation([k \in 1..Len(call.kw.w) |-> title(call.kw.w[k])],
                              call.kw.db)

\* the last call of to_standard had valid options, strings only, a working
\* catalogue and no region to interpret
C13_Case ==
    /\ IsToStandard
    /\ ValidOptions
    /\ call.kw.interpret_region = "False"
    /\ catalogue = "ok"
    /\ \A k \in 1..Len(call.kw.w) : ~ IsInt(call.kw.w[k])

\* C13: a call with a string that has neither an exact nor a fuzzy match
\* raises CoaLookupError for the first such string and returns nothing; a
\* call without such a string returns one value per input, and for a string
\* with no exact match and several fuzzy candidates a warning is emitted
\* and the value is that of the first candidate.
C13_UnmatchedFailsAmbiguousWarns ==
    C13_Case =>
        IF \E k \in 1..Len(Queue) : Unmatched(Queue[k])
        THEN /\ call.res.kind = "CoaLookupError"
             /\ Unmatched(call.res.asked[Len(call.res.asked)])
             /\ \A k \in 1..Len(Queue) :
                   (\A j \in 1..(k - 1) : ~ Unmatched(Queue[j])) /\ Unmatched(Queue[k])
                       => call.res.asked[Len(call.res.asked)] = Queue[k]
        ELSE /\ call.res.kind = "return"
             /\ Len(call.res.n) = Len(Queue)
             /\ call.res.warned = Cardinality({k \in 1..Len(Queue) : Ambiguous(Queue[k])})
             /\ \A k \in 1..Len(Queue) :
                   Ambiguous(Queue[k]) =>
                       call.res.n[k] =
                           Project(standard, Countries[search_fuzzy(Queue[k])[1]])

\* a list with a name of several fuzzy candidates was standardized: a
\* warning, and a value for that name
C13_Witness ==
    /\ C13_Case
    /\ \E k \in 1..Len(Queue) : Ambiguous(Queue[k])
    /\ call.res.kind = "return"
    /\ call.res.warned > 0

\* the exception classes of the package: CoaError and the classes derived
\* from it that geo.py raises
CoaErrors ==
    {"CoaKeyError", "CoaTypeError", "CoaDbError", "CoaLookupError",
     "CoaNotManagedError", "CoaConnectionError"}

\* the last call was an operation of GeoManager
IsGeoManagerCall == call # NoCall /\ call.op \in {"to_standard", "set_standard"}

\* C14: a failure of a GeoManager operation is a CoaError or a class
\* derived from it, and a call of to_standard that ends on an unexpected
\* failure of the catalogue lookup or of the fuzzy search ends with
\* CoaNotManagedError.
C14_FailuresAreCoaErrors ==
    (IsGeoManagerCall /\ call.res.kind # "return") =>
        /\ call.res.kind \in CoaErrors
        /\ (/\ call.op = "to_standard"
            /\ catalogue # "ok"
            /\ call.res.asked # <<>>
            /\ call.res.kind # "CoaLookupError")
               => call.res.kind = "CoaNotManagedError"

\* the last call of to_standard with every integer element replaced by its
\* decimal string
Coerced ==
    to_standard(standard, catalogue, region_dict, p_gs,
                [k \in 1..Len(call.kw.w) |-> str(call.kw.w[k])],
                call.kw.output, call.kw.db, call.kw.interpret_region)

\* C15: a call of to_standard with valid options and an integer element
\* ends as the call with the decimal string of that integer in its place:
\* same outcome and same values.
C15_IntegerCoerced ==
    (/\ IsToStandard
     /\ ValidOptions
     /\ \E k \in 1..Len(call.kw.w) : IsInt(call.kw.w[k]))
        => /\ call.res.kind = Coerced.kind
           /\ call.res.n = Coerced.n

\* C16: a call of to_standard with an invalid option fails with CoaKeyError
\* or CoaTypeError, without any catalogue lookup and without any warning.
C16_InvalidOptionRejected ==
    (IsToStandard /\ ~ ValidOptions) =>
        /\ call.res.kind \in {"CoaKeyError", "CoaTypeError"}
        /\ call.res.asked = <<>>
        /\ call.res.warned = 0

\* the last call was set_standard
IsSetStandard == call # NoCall /\ call.op = "set_standard"

\* C17 as stated: the supported standards are iso2, iso3, name and numeric;
\* a supported value is set and returned, and any other value fails with
\* CoaKeyError and leaves the standard as it was.
C17_SetStandardNumeric ==
    IsSetStandard =>
        IF call.kw.standard \in {"iso2", "iso3", "name", "numeric"}
        THEN /\ call.res.kind = "return"
             /\ call.res.val = call.kw.standard
             /\ standard = call.kw.standard
        ELSE /\ call.res.kind = "CoaKeyError"
             /\ standard = call.before.standard

\* C17: the supported standards are iso2, iso3, name and num; a supported
\* value is set and returned; any other string fails with CoaKeyError and a
\* value that is not a string with CoaTypeError, and both leave the
\* standard as it was.
C17_SetStandardExact ==
    IsSetStandard =>
        IF call.kw.standard \in {"iso2", "iso3", "name", "num"}
        THEN /\ call.res.kind = "return"
             /\ call.res.val = call.kw.standard
             /\ standard = call.kw.standard
        ELSE /\ call.res.kind =
                    IF IsInt(call.kw.standard) THEN "CoaTypeError" ELSE "CoaKeyError"
             /\ standard = call.before.standard

\* set_standard('numeric') was refused, and the standard was kept
C17_Witness ==
    /\ IsSetStandard
    /\ call.kw.standard = "numeric"
    /\ call.res.kind = "CoaKeyError"
    /\ call.before.standard = "iso3"
    /\ standard = "iso3"

\* C18: with valid options, to_standard on the empty string returns the
\* empty value and looks nothing up, under every standard, output format
\* and source database, whatever the state of the catalogue; in a list of
\* strings that is standardized, an empty string gives an empty value at
\* its place.
C18_EmptyStringEmptyValue ==
    (IsToStandard /\ ValidOptions) =>
        /\ call.kw.w = <<"">> =>
              /\ call.res.kind = "return"
              /\ call.res.n = <<"">>
              /\ call.res.asked = <<>>
              /\ call.res.warned = 0
        /\ (/\ call.res.kind = "return"
            /\ call.kw.interpret_region = "False") =>
              \A k \in 1..Len(call.kw.w) :
                  call.kw.w[k] = "" =>
                      call.res.n[k] = "" /\ call.res.how[k] = "empty"

\* to_standard('') returned the empty value under the numeric standard, as
\* a pandas table, with the translations of a source database
C18_Witness ==
    /\ IsToStandard
    /\ call.kw.w = <<"">>
    /\ standard = "num"
    /\ call.kw.output = "pandas"
    /\ call.kw.db = "jhu"
    /\ call.res.kind = "return"
    /\ call.res.n = <<"">>

\* str.upper() on the strings the model feeds to to_standard
upper(s) ==
    CASE s = "France" -> "FRANCE"
      [] s = "g7" -> "G7"
      [] s = "Atlantis" -> "ATLANTIS"
      [] s = "United" -> "UNITED"
      [] s = "Eastern Asia" -> "EASTERN ASIA"
      [] s = "Diamond Princess" -> "DIAMOND PRINCESS"
      [] s = "iran" -> "IRAN"
      [] OTHER -> s

\* the last call of to_standard with its list written in capitals
InCapitals ==
    to_standard(standard, catalogue, region_dict, p_gs,
                [k \in 1..Len(call.kw.w) |-> upper(call.kw.w[k])],
                call.kw.output, call.kw.db, call.kw.interpret_region)

\* the last call of to_standard with its list written in small letters
InSmallLetters ==
    to_standard(standard, catalogue, region_dict, p_gs,
                [k \in 1..Len(call.kw.w) |-> lower(call.kw.w[k])],
                call.kw.output, call.kw.db, call.kw.interpret_region)

\* C19: a call of to_standard ends as the calls with the same standard and
\* options whose list is the same list written in capitals or in small
\* letters: the same outcome (value or error), the same values, the same
\* names paired with them, the same lookups and warnings.
C19_CaseInsensitive ==
    IsToStandard =>
        call.res = Result(InCapitals) /\ call.res = Result(InSmallLetters)

\* a region name in small letters was interpreted, as its capitals are
C19_Witness ==
    /\ IsToStandard
    /\ call.kw.w = <<"g7", "France">>
    /\ call.kw.interpret_region = "True"
    /\ call.res.kind = "return"
    /\ Len(call.res.n) = 8

\* what to_standard gives now for the list w under the standard s, with
\* the options of the last call
Under(s, w) ==
    to_standard(s, catalogue, region_dict, p_gs, w,
                call.kw.output, call.kw.db, call.kw.interpret_region)

\* the values for the iso3 codes r3 under every standard are the values
\* for the list w itself
ThroughIso3(r3, w) ==
    \A s \in Range(list_standard) :
        /\ Under(s, r3).kind = "return"
        /\ Under(s, r3).n = Under(s, w).n

\* C20: when to_standard resolves every location of a list, resolving the
\* list to iso3 and then resolving these iso3 codes under a supported
\* standard s gives the values that resolving the list directly under s
\* gives, for every s.
C20_Iso3RoundTrip ==
    (IsToStandard /\ call.res.kind = "return") =>
        /\ Under("iso3", call.kw.w).kind = "return"
        /\ ThroughIso3(Under("iso3", call.kw.w).n, call.kw.w)

\* a name with two fuzzy candidates was resolved under the numeric standard
C20_Witness ==
    /\ IsToStandard
    /\ call.kw.w = <<"France", "United">>
    /\ call.res.kind = "return"
    /\ standard = "num"
    /\ call.res.n = <<"250", "840">>
    /\ Under("iso3", call.kw.w).n = <<"FRA", "USA">>

\* the last call of to_standard was given strings and returned
ReturnedFor(output) ==
    /\ IsToStandard
    /\ call.kw.output = output
    /\ call.res.kind = "return"

\* C21: with output='dict' the keys of the value returned are the strings
\* of the caller's list as supplied, each with the standardized value of
\* that input; with output='pandas' the value has one row (input as
\* supplied, standardized value) per element of the list.
C21_KeysAreTheInputs ==
    /\ ReturnedFor("dict") =>
          /\ {call.res.val[i][1] : i \in 1..Len(call.res.val)} = Range(call.kw.w)
          /\ \A i \in 1..Len(call.res.val) :
                \E k \in 1..Len(call.kw.w) :
                    /\ call.kw.w[k] = call.res.val[i][1]
                    /\ call.res.n[k] = call.res.val[i][2]
    /\ ReturnedFor("pandas") =>
          /\ Len(call.res.val) = Len(call.kw.w)
          /\ \A k \in 1..Len(call.kw.w) :
                call.res.val[k] = <<call.kw.w[k], call.res.n[k]>>

\* the title-cased form of the input x is a key of the override table of
\* the database db
IsKey(db, x) == translation_dict(db, title(x)) # title(x)

\* the list of the last call with every input whose title-cased form is a
\* key replaced by the value the table of the call's database has for it
Overridden ==
    [k \in 1..Len(call.kw.w) |-> translation_dict(call.kw.db, title(call.kw.w[k]))]

\* what to_standard gives now for the list w with no database, and the
\* other options of the last call
WithoutDb(w) ==
    to_standard(standard, catalogue, region_dict, p_gs, w,
                call.kw.output, "None", call.kw.interpret_region)

\* the last call of to_standard had valid options, strings only and a
\* source database
C22_Case ==
    /\ IsToStandard
    /\ ValidOptions
    /\ call.kw.db # "None"
    /\ \A k \in 1..Len(call.kw.w) : ~ IsInt(call.kw.w[k])

\* the outcome, the values and the warnings of the result r are those of
\* the last call
SameValues(r) ==
    /\ call.res.kind = r.kind
    /\ call.res.n = r.n
    /\ call.res.warned = r.warned

\* the result r is the result of the last call
SameResult(r) == call.res = Result(r)

\* C22: with a source database, the inputs whose title-cased form is a key
\* of its table are resolved as the table's values are with no database
\* (the boat names of jhu give the empty value, without a lookup), and a
\* list without such an input gives the result it gives with no database.
C22_OverrideThenResolve ==
    C22_Case =>
        /\ SameValues(WithoutDb(Overridden))
        /\ (\A k \in 1..Len(call.kw.w) : ~ IsKey(call.kw.db, call.kw.w[k]))
               => SameResult(WithoutDb(call.kw.w))
        /\ (call.kw.db = "jhu" /\ call.res.kind = "return") =>
               \A k \in 1..Len(call.kw.w) :
                   title(call.kw.w[k]) \in {"Diamond Princess", "Ms Zaandam"}
                       => call.res.n[k] = ""

\* a key of the jhu table written in small letters was resolved through
\* the table's value, by an exact lookup of the code
C22_Witness ==
    /\ C22_Case
    /\ call.kw.db = "jhu"
    /\ call.kw.w = <<"iran", "France">>
    /\ call.res.kind = "return"
    /\ call.res.asked = <<"IRN", "France">>
    /\ call.res.how = <<"exact", "exact">>
    /\ WithoutDb(call.kw.w).how = <<"fuzzy", "exact">>

\* the last call was get_countries_from_region
IsGetCountries == call # NoCall /\ call.op = "get_countries_from_region"

\* the names of the regions whose members are written in the code
StaticNames == {"European Union", "G7", "G8", "G20", "Oecd", "G77"}

\* the iso3 codes of the rows of the flattened relation that carry the
\* region name
Iso3Carrying(region) ==
    {Item(p_gs.rows[r][IndexOf(p_gs.cols, "iso3", 1)]) :
        r \in {q \in 1..Len(p_gs.rows) :
                  p_gs.rows[q][IndexOf(p_gs.cols, "region_name", 1)] = S(region)}}

\* C23: get_countries_from_region fails with CoaKeyError when the
\* title-cased argument is not a known region name, and for a dynamic
\* region it returns a list in ascending order, without duplicates, of
\* exactly the iso3 codes whose row of the flattened relation carries that
\* name.
C23_DynamicSortedSet ==
    IsGetCountries =>
        IF title(call.kw.region) \notin Range(get_region_list(region_dict))
        THEN call.res.kind = "CoaKeyError"
        ELSE /\ call.res.kind = "return"
             /\ title(call.kw.region) \notin StaticNames =>
                   /\ Range(call.res.val) = Iso3Carrying(title(call.kw.region))
                   /\ \A i, j \in 1..Len(call.res.val) :
                         i < j => Rank(call.res.val[i]) < Rank(call.res.val[j])

\* C24: whatever GeoManager and GeoInfo objects were built and whatever
\* calls were made, each of the two pages of the region catalogue has been
\* read at most once, and the known region names are those of the first
\* construction.
C24_CatalogueBuiltOnce ==
    /\ pages.nread.m49 <= 1
    /\ pages.nread.gs <= 1
    /\ Range(get_region_list(region_dict))
          = Range(get_region_list(GeoRegion_init(<<>>, pages.m49, pages.gs).region_dict))

\* C25: the table a call of add_field returns has as columns the columns of
\* the caller's table and one column named after each requested field, and
\* no other column.
C25_ColumnsAreInputPlusFields ==
    (IsAddField /\ call.res.kind = "return") =>
        /\ Range(call.res.df.cols)
              = Range(call.kw.input.df.cols) \cup Range(call.kw.field.val)
        /\ \A i, j \in 1..Len(call.res.df.cols) :
              call.res.df.cols[i] = call.res.df.cols[j] => i = j

C27_Case ==
    /\ IsAddField
    /\ ~ failed
    /\ call.before.self[call.inst].pop.set
    /\ Range(call.kw.field.val) \cap PopulationFields # {}

\* C27: once a successful call has fetched the demographic table on an
\* instance, a later call on that instance for any of the five fields
\* does not fetch the source again and leaves the cached table as it was.
C27_DemographicFetchedOnce ==
    C27_Case =>
        /\ nfetch.population = call.before.nfetch.population
        /\ self[call.inst].pop = call.before.self[call.inst].pop

\* the demographic table t is complete: the renamed columns and the iso3
\* key column
CompletePopulation(t) ==
    t.cols = [k \in 1..Len(field_descr) |-> field_descr[k][2]] \o <<"iso3_tmp2">>

\* the polygon table t is complete: the two columns, a row for SSD, and
\* the patched polygon in every row of SSD and SDN
CompleteGeometry(t) ==
    /\ t.cols = <<"id_tmp", "geometry">>
    /\ \E r \in 1..Len(t.rows) : t.rows[r][1] = S("SSD")
    /\ \A r \in 1..Len(t.rows) :
          Item(t.rows[r][1]) \in {"SSD", "SDN"}
              => t.rows[r][2] = Datum("patch", Item(t.rows[r][1]))

\* C28: in every state, on every instance, the demographic cache is either
\* absent (never assigned, or empty) or complete, and so is the polygon
\* cache.
C28_CacheAbsentOrComplete ==
    \A i \in Instances :
        /\ \/ ~ self[i].pop.set
           \/ empty(self[i].pop.df)
           \/ CompletePopulation(self[i].pop.df)
        /\ \/ ~ self[i].geo.set
           \/ empty(self[i].geo.df)
           \/ CompleteGeometry(self[i].geo.df)

RECURSIVE ExpandOnce(_)
\* the queue q with every region name replaced by the members of the
\* region, the members themselves left as they are
ExpandOnce(q) ==
    IF q = <<>> THEN <<>>
    ELSE (IF Head(q) \in Range(get_region_list(region_dict))
          THEN get_countries_from_region(region_dict, p_gs, Head(q)).val
          ELSE <<Head(q)>>)
         \o ExpandOnce(Tail(q))

\* what resolving every string of the list q as a country gives now
AsCountries(q) ==
    to_standard(standard, catalogue, region_dict, p_gs, q, "list", "None", "False")

\* C29: a call of to_standard with interpret_region=True ends as resolving,
\* as countries, the list in which every region name is replaced by its
\* members: a member is not expanded again, whatever string it is.
C29_OneLevelExpansion ==
    (/\ IsToStandard
     /\ ValidOptions
     /\ call.kw.interpret_region = "True"
     /\ \A k \in 1..Len(call.kw.w) : ~ IsInt(call.kw.w[k]))
        => /\ call.res.kind = AsCountries(ExpandOnce(Queue)).kind
           /\ call.res.kind = "return" => call.res.n = AsCountries(ExpandOnce(Queue)).n

====
